---- MODULE Spec2Model ----
(***************************************************************************)
(* xarb: cross-exchange price monitor.                                     *)
(*                                                                         *)
(* Strings are sequences of one-character strings, so that the string      *)
(* operations of the source (ToUpper, TrimSpace, HasSuffix, ReplaceAll,    *)
(* ParseFloat) are computed rather than assumed.  float64 prices are       *)
(* modelled by integers: the price literals of the model are integer       *)
(* literals, on which float64 arithmetic is exact.                         *)
(***************************************************************************)
EXTENDS Integers, Sequences, FiniteSets, TLC

VARIABLES
    syms,       \* State.syms: coin -> (exchange -> pxState), exchanges created lazily
    lastBand,   \* Service.lastBand: raw tick symbol -> -1/0/+1 (partial map)
    seenBand,   \* Service.seenBand: the raw tick symbols whose baseline is established
    last,       \* what the latest run of the merged-tick handler did (its outputs)
    step,       \* progress of the run along the scenario S1-S3 (-1: left it)
    depsCoins,  \* ServiceDeps.Coins: the configured list, handed to every Subscribe
    depsFeeds,  \* ServiceDeps.Feeds: the enabled feeds (by exchange tag)
    ctxDone,    \* the root context is cancelled
    runPc,      \* per feed: where TickerFeed.run is
    backoff,    \* per feed: run's local `backoff`, in milliseconds
    fails,      \* per feed: the failures (each followed by a backoff sleep) since
                \* backoff was last reset
    subFailed,  \* per feed: the subscribe write on the current socket failed
    conn,       \* per feed: the socket is "open", or "closed" (none yet, or closed)
    reader,     \* per feed: the goroutine started by readLoop is in "read", in "send",
                \* or "done" (none started yet, or it returned)
    lastFrame,  \* per feed: the frame ReadMessage returned last
    pending,    \* per feed: the ticks onMsg still has to send for the frame it decodes
    readLog,    \* per feed: the ticks onMsg made of the frames, in the order read
    errCh,      \* per feed: an error is buffered in readLoop's errCh
    out,        \* per feed: the buffer of the feed's outbound channel
    outClosed,  \* per feed: close(out) has run
    fwd,        \* per feed: where the fan-in goroutine of Service.Run is
    fwdTick,    \* per feed: the tick the fan-in goroutine received and is forwarding
    merged,     \* the buffer of the merged channel
    applied,    \* per exchange tag: the ticks the main loop took from merged, in order
    mainPc,     \* where the main loop of Service.Run is
    panicked,   \* a goroutine sent on a closed channel (the process has crashed)
    cfg,        \* the configuration file, as config.Load reads it
    depsExchanges, \* ServiceDeps.Exchanges, which NewService hands to the Formatter
    depsRepo,   \* ServiceDeps.Repo holds a repository
    order,      \* State.order
    sink,       \* what the latest step of the main goroutine wrote to the Sink
    closerChain, \* ServiceContext.closerChain: the registered close functions
    closeLog,   \* the close functions that have run, in the order they ran
    snap,       \* the map a caller of State.Snapshot holds, if one does
    call,       \* the latest call of an operation by a client, with its result
    positions,  \* the rows of the table arbitrage_positions, by id
    repoRet,    \* what the latest call of the ArbitrageRepo returned
    wsm,        \* WebSocketManager: the registered clients and what Initialize returned
    mm,         \* the MarginManager
    od,         \* OrderDeduplicator.recentOrders: symbol -> RecentOrder
    dog,        \* DuplicateOrderGuard: failedSymbols, its RWMutex, who accesses the map
    now,        \* the wall clock, in seconds
    om,         \* OrderManager: per caller, where its ExecuteArbitrage is, with its locals
    thr,        \* per caller of the DuplicateOrderGuard: where its call is
    syncer      \* FundingRateSyncer.Start: its ticker, its goroutine, the syncs done

boardVars == <<syms, lastBand, seenBand, last>>

\* the dependencies NewService receives and what it derives from them
depsVars == <<depsCoins, depsFeeds, depsExchanges, depsRepo, cfg, order>>

\* the shutdown chain
closeVars == <<closerChain, closeLog>>

\* what the clients of single operations hold
clientVars == <<snap, call>>

\* what only startup, shutdown and the clients of single operations write
\* the repository, the WebSocket manager, the order execution and the funding
\* rate syncer
tradeVars == <<positions, repoRet, wsm, mm, od, dog, now, om, thr, syncer>>

notWsm == <<positions, repoRet, mm, od, dog, now, om, thr, syncer>>

envVars == <<depsVars, closeVars, clientVars, tradeVars>>

\* the feeds, the fan-in goroutines and the main loop
pipeVars == <<ctxDone, runPc, backoff, fails, subFailed, conn, reader,
              lastFrame, pending, readLog, errCh, out, outClosed, fwd, fwdTick,
              merged, applied, mainPc, panicked>>

feedVars == <<envVars, pipeVars>>

vars == <<syms, lastBand, seenBand, last, step, depsCoins, depsFeeds, ctxDone, runPc, backoff,
          fails, subFailed, conn, reader, lastFrame, pending, readLog, errCh, out,
          outClosed, fwd, fwdTick, merged, applied, mainPc, panicked, cfg, depsExchanges,
          depsRepo, order, sink, closerChain, closeLog, snap, call, positions, repoRet,
          wsm, mm, od, dog, now, om, thr, syncer>>

-----------------------------------------------------------------------------
(* Strings *)

LowerChars == <<"a","b","c","d","e","f","g","h","i","j","k","l","m",
                "n","o","p","q","r","s","t","u","v","w","x","y","z">>
UpperChars == <<"A","B","C","D","E","F","G","H","I","J","K","L","M",
                "N","O","P","Q","R","S","T","U","V","W","X","Y","Z">>
DigitChars == <<"0","1","2","3","4","5","6","7","8","9">>

\* unicode.ToUpper as a table over the letters
UpperOf ==
    [c \in {LowerChars[i] : i \in 1..Len(LowerChars)} |->
        UpperChars[CHOOSE i \in 1..Len(LowerChars) : LowerChars[i] = c]]

\* unicode.ToUpper on one character
UpperChar(c) == IF c \in DOMAIN UpperOf THEN UpperOf[c] ELSE c

\* strings.ToUpper
ToUpper(s) == [i \in 1..Len(s) |-> UpperChar(s[i])]

\* strings.TrimSpace: drop the leading and the trailing blanks
TrimSpace(s) ==
    LET nonblank == {i \in 1..Len(s) : s[i] # " "}
    IN  IF nonblank = {} THEN <<>>
        ELSE LET lo == CHOOSE i \in nonblank : \A j \in nonblank : i <= j
                 hi == CHOOSE i \in nonblank : \A j \in nonblank : i >= j
             IN  SubSeq(s, lo, hi)

\* value of a decimal digit
DigitVal(c) == (CHOOSE i \in 1..Len(DigitChars) : DigitChars[i] = c) - 1

IsDigit(c) == \E i \in 1..Len(DigitChars) : DigitChars[i] = c

RECURSIVE DigitsValue(_)
DigitsValue(s) ==
    IF s = <<>> THEN 0
    ELSE 10 * DigitsValue(SubSeq(s, 1, Len(s) - 1)) + DigitVal(s[Len(s)])

\* strconv.ParseFloat(s, 64) on the integer literals [+-]digits+; every other
\* string of the model's alphabet is a syntax error (ok = FALSE, n = 0)
ParseFloat(s) ==
    LET signed == Len(s) >= 1 /\ s[1] \in {"-", "+"}
        digits == IF signed THEN SubSeq(s, 2, Len(s)) ELSE s
    IN  IF digits # <<>> /\ \A i \in 1..Len(digits) : IsDigit(digits[i])
        THEN [ok |-> TRUE,
              n  |-> IF signed /\ s[1] = "-" THEN 0 - DigitsValue(digits)
                     ELSE DigitsValue(digits)]
        ELSE [ok |-> FALSE, n |-> 0]

\* strings.HasSuffix
HasSuffix(s, suffix) ==
    Len(s) >= Len(suffix) /\ SubSeq(s, Len(s) - Len(suffix) + 1, Len(s)) = suffix

\* strings.ReplaceAll(s, old, ""): the non-overlapping occurrences of a
\* non-empty old are removed, scanning from the left
RECURSIVE RemoveAll(_, _)
RemoveAll(s, old) ==
    IF old = <<>> \/ Len(s) < Len(old) THEN s
    ELSE IF SubSeq(s, 1, Len(old)) = old
    THEN RemoveAll(SubSeq(s, Len(old) + 1, Len(s)), old)
    ELSE <<s[1]>> \o RemoveAll(SubSeq(s, 2, Len(s)), old)

-----------------------------------------------------------------------------
(* Symbol converter: CommonSymbolConverter *)

\* NewCommonSymbolConverter(suffix): the stored suffix
ConverterSuffix(suffix) == ToUpper(TrimSpace(suffix))

\* Symbol2Coin that leaves the suffix in place
Symbol2Coin_KeepSuffix(suffix, symbol) == ToUpper(TrimSpace(symbol))

\* CommonSymbolConverter.Symbol2Coin
Symbol2Coin(suffix, symbol) ==
    LET sym == ToUpper(TrimSpace(symbol))
    IN  IF sym = <<>> THEN <<>> ELSE RemoveAll(sym, suffix)

\* CommonSymbolConverter.Coin2Symbol
Coin2Symbol(suffix, coin) ==
    LET c == ToUpper(TrimSpace(coin))
    IN  IF c = <<>> THEN <<>>
        ELSE IF HasSuffix(c, suffix) THEN c
        ELSE c \o suffix

-----------------------------------------------------------------------------
(* Configuration *)

\* arbitrage.delta_threshold (the default substituted by config validation)
DeltaThreshold == 5

BTC == <<"B","T","C">>
ETH == <<"E","T","H">>

\* ServiceDeps.Coins
Coins == <<BTC>>

BINANCE == <<"B","I","N","A","N","C","E">>
BYBIT   == <<"B","Y","B","I","T">>
OKX     == <<"O","K","X">>
EX1     == <<"E","X","1">>
EX2     == <<"E","X","2">>

\* price strings as the exchanges send them
P100 == <<"1","0","0">>
P106 == <<"1","0","6">>
PNA  == <<"n","/","a">>

-----------------------------------------------------------------------------
(* Price board: State *)

DirSame == 0
DirUp   == 1
DirDown == -1

\* the zero value of pxState (&pxState{})
NewPxState == [str |-> <<>>, num |-> 0, has |-> FALSE, dir |-> DirSame,
               seen |-> FALSE, parse |-> FALSE]

\* NewState(coins): one empty row per non-blank coin, keyed by the
\* upper-cased, trimmed token
NewState(coins) ==
    LET keys == {ToUpper(TrimSpace(coins[i])) : i \in 1..Len(coins)} \ {<<>>}
    IN  [c \in keys |-> <<>>]

\* a tick of the merged channel
Tick(ex, sym, px) ==
    [Exchange |-> ex, Symbol |-> sym, PriceStr |-> px, PriceNum |-> ParseFloat(px).n]

\* ApplyCell that leaves the stored price string as it was
ApplyCell_StaleStr(ps, price) ==
    LET p == ParseFloat(price)
    IN  IF ~p.ok
        THEN [ps EXCEPT !.seen = TRUE, !.parse = FALSE, !.dir = DirSame]
        ELSE IF ~ps.has
        THEN [ps EXCEPT !.seen = TRUE, !.parse = TRUE,
                        !.has = TRUE, !.num = p.n, !.dir = DirSame]
        ELSE [ps EXCEPT !.seen = TRUE, !.parse = TRUE,
                        !.num = p.n,
                        !.dir = IF p.n > ps.num THEN DirUp
                                ELSE IF p.n < ps.num THEN DirDown
                                ELSE DirSame]

\* ApplyCell that stores the price string of a parseable price only
ApplyCell_DropUnparsedStr(ps, price) ==
    LET p == ParseFloat(price)
    IN  IF ~p.ok
        THEN [ps EXCEPT !.seen = TRUE, !.parse = FALSE, !.dir = DirSame]
        ELSE IF ~ps.has
        THEN [ps EXCEPT !.str = price, !.seen = TRUE, !.parse = TRUE,
                        !.has = TRUE, !.num = p.n, !.dir = DirSame]
        ELSE [ps EXCEPT !.str = price, !.seen = TRUE, !.parse = TRUE,
                        !.num = p.n,
                        !.dir = IF p.n > ps.num THEN DirUp
                                ELSE IF p.n < ps.num THEN DirDown
                                ELSE DirSame]

\* the cell written by State.Apply when the price string differs from the stored one
ApplyCell(ps, price) ==
    LET p == ParseFloat(price)
    IN  IF ~p.ok
        THEN [ps EXCEPT !.str = price, !.seen = TRUE, !.parse = FALSE, !.dir = DirSame]
        ELSE IF ~ps.has
        THEN [ps EXCEPT !.str = price, !.seen = TRUE, !.parse = TRUE,
                        !.has = TRUE, !.num = p.n, !.dir = DirSame]
        ELSE [ps EXCEPT !.str = price, !.seen = TRUE, !.parse = TRUE,
                        !.num = p.n,
                        !.dir = IF p.n > ps.num THEN DirUp
                                ELSE IF p.n < ps.num THEN DirDown
                                ELSE DirSame]

\* map[k] = v on a map held as a function (insert or overwrite)
MapPut(m, k, v) == [x \in DOMAIN m \cup {k} |-> IF x = k THEN v ELSE m[x]]

\* Apply that admits any coin: an unknown coin gets a row
Apply_AdmitUnknown(st, t) ==
    LET ex    == ToUpper(TrimSpace(t.Exchange))
        coin  == ToUpper(TrimSpace(t.Symbol))
        price == TrimSpace(t.PriceStr)
    IN  IF coin = <<>> \/ price = <<>> \/ ex = <<>>
        THEN [st |-> st, changed |-> FALSE]
        ELSE LET row == IF coin \in DOMAIN st THEN st[coin] ELSE <<>>
                 ps  == IF ex \in DOMAIN row THEN row[ex] ELSE NewPxState
             IN  IF ps.str = price
                 THEN [st |-> MapPut(st, coin, MapPut(row, ex, [ps EXCEPT !.seen = TRUE])),
                       changed |-> FALSE]
                 ELSE [st |-> MapPut(st, coin, MapPut(row, ex, ApplyCell(ps, price))),
                       changed |-> TRUE]

\* State.Apply(t): the board after the call and the returned changed bit
Apply(st, t) ==
    LET ex    == ToUpper(TrimSpace(t.Exchange))
        coin  == ToUpper(TrimSpace(t.Symbol))
        price == TrimSpace(t.PriceStr)
    IN  IF coin = <<>> \/ price = <<>> \/ ex = <<>>
        THEN [st |-> st, changed |-> FALSE]
        ELSE IF coin \notin DOMAIN st
        THEN [st |-> st, changed |-> FALSE]
        ELSE LET row == st[coin]
                 ps  == IF ex \in DOMAIN row THEN row[ex] ELSE NewPxState
             IN  IF ps.str = price
                 THEN [st |-> [st EXCEPT ![coin] =
                                   MapPut(row, ex, [ps EXCEPT !.seen = TRUE])],
                       changed |-> FALSE]
                 ELSE [st |-> [st EXCEPT ![coin] =
                                   MapPut(row, ex, ApplyCell(ps, price))],
                       changed |-> TRUE]

\* the classification of a delta by the symmetric threshold
Band(d, threshold) ==
    IF d >= threshold THEN 1
    ELSE IF d <= 0 - threshold THEN -1
    ELSE 0

NotOk == [delta |-> 0, band |-> 0, ok |-> FALSE]

\* DeltaBandPair that requires has but not parse of the two cells
DeltaBandPair_IgnoreParse(row, e1, e2, threshold) ==
    LET ps1 == row[e1]
        ps2 == row[e2]
    IN  IF ~(ps1.has /\ ps2.has)
        THEN [delta |-> 0, band |-> 0, ok |-> FALSE]
        ELSE [delta |-> ps2.num - ps1.num,
              band  |-> IF ps2.num - ps1.num >= threshold THEN 1
                        ELSE IF ps2.num - ps1.num <= 0 - threshold THEN -1
                        ELSE 0,
              ok    |-> TRUE]

\* the tail of State.DeltaBand once exchanges[0] = e1 and exchanges[1] = e2
DeltaBandPair(row, e1, e2, threshold) ==
    LET ps1 == row[e1]
        ps2 == row[e2]
    IN  IF ~(ps1.parse /\ ps2.parse /\ ps1.has /\ ps2.has)
        THEN NotOk
        ELSE [delta |-> ps2.num - ps1.num,
              band  |-> Band(ps2.num - ps1.num, threshold),
              ok    |-> TRUE]

\* The orders in which `for ex := range st.exchanges` can fill the slice
\* exchanges: Go leaves the iteration order of a map unspecified, so the
\* first two entries are any two distinct keys in either order.
RangeFirstTwo(row) ==
    {<<a, b>> : a \in DOMAIN row, b \in DOMAIN row} \ {<<a, a>> : a \in DOMAIN row}

\* State.DeltaBand(symbol, threshold): every result a call can return on
\* board st, each with the pair it was computed on
DeltaBand(st, symbol, threshold) ==
    LET sym == ToUpper(TrimSpace(symbol))
    IN  IF sym = <<>> \/ threshold <= 0 THEN {[pair |-> <<>>, res |-> NotOk]}
        ELSE IF sym \notin DOMAIN st THEN {[pair |-> <<>>, res |-> NotOk]}
        ELSE IF Cardinality(DOMAIN st[sym]) < 2 THEN {[pair |-> <<>>, res |-> NotOk]}
        ELSE {[pair |-> p, res |-> DeltaBandPair(st[sym], p[1], p[2], threshold)] :
                  p \in RangeFirstTwo(st[sym])}

-----------------------------------------------------------------------------
(* Board order and State.Snapshot *)

\* the slice `order` NewState(coins) builds: the upper-cased, trimmed tokens
\* of the non-blank coins, in the order given
RECURSIVE NewStateOrder(_)
NewStateOrder(coins) ==
    IF coins = <<>> THEN <<>>
    ELSE LET u == ToUpper(TrimSpace(Head(coins)))
         IN  IF u = <<>> THEN NewStateOrder(Tail(coins))
             ELSE <<u>> \o NewStateOrder(Tail(coins))

\* State.Symbols()
Symbols(ord) == ord

\* State.Snapshot(): a new map with, under every coin, a copy of the struct
\* symState.  The struct's one field is the reference to the exchanges map
\* that NewState made for the coin; a map is never replaced, so the model
\* names the map object by its coin.
Snapshot(st) == [k \in DOMAIN st |-> [exchanges |-> k]]

\* the map a reference refers to, on board st
MapAt(st, ref) == st[ref]

NoSnapshot == <<>>

-----------------------------------------------------------------------------
(* Renderer: Formatter *)

RenderLive     == 0
RenderSnapshot == 1

ansiReset    == "ESC[0m"
ansiRed      == "ESC[31m"
ansiGreen    == "ESC[32m"
ansiYellow   == "ESC[33m"
ansiDim      == "ESC[2m"
ansiClearEOL == "ESC[K"
CR           == "CR"

colorize(s, c) == <<c>> \o s \o <<ansiReset>>

\* dsvc.DeltaColor
DeltaColor(delta, threshold) ==
    IF delta >= threshold THEN 1
    ELSE IF delta <= 0 - threshold THEN -1
    ELSE 0

\* a < b for Go strings: bytewise lexicographic, with ByteOrder the
\* characters of the model in the order of their byte values
StringLess(a, b) ==
    LET ByteOrder == <<" ", "+", "-", ".", "/">> \o DigitChars \o <<":">>
                         \o UpperChars \o LowerChars
        ByteOf(c) == CHOOSE i \in 1..Len(ByteOrder) : ByteOrder[i] = c
    IN  \E k \in 1..(Len(b)) :
            /\ k <= Len(a) + 1
            /\ \A i \in 1..(k - 1) : a[i] = b[i]
            /\ (k = Len(a) + 1 \/ ByteOf(a[k]) < ByteOf(b[k]))

\* sort.Strings applied to the keys of a map
RECURSIVE SortStrings(_)
SortStrings(S) ==
    IF S = {} THEN <<>>
    ELSE LET m == CHOOSE x \in S : \A y \in S \ {x} : StringLess(x, y)
         IN  <<m>> \o SortStrings(S \ {m})

\* Formatter.getExchangesToDisplay(ss), with m the map ss.exchanges
getExchangesToDisplay(fExchanges, m) ==
    IF Len(fExchanges) > 0
    THEN SelectSeq(fExchanges, LAMBDA ex : ex \in DOMAIN m)
    ELSE SortStrings(DOMAIN m)

\* the index pairs (i, j) in the order of getMaxDelta's two loops
RECURSIVE LoopPairs(_, _, _)
LoopPairs(i, j, n) ==
    IF i > n - 1 THEN <<>>
    ELSE IF j > n THEN LoopPairs(i + 1, i + 2, n)
    ELSE <<<<i, j>>>> \o LoopPairs(i, j + 1, n)

\* the loop body of getMaxDelta on the pair p, with acc the locals maxDelta
\* (nil, or value and pair) and maxAbsDelta
MaxDeltaStep(m, exchanges, p, acc) ==
    LET e1 == exchanges[p[1]]
        e2 == exchanges[p[2]]
    IN  IF e1 \notin DOMAIN m \/ e2 \notin DOMAIN m THEN acc
        ELSE IF ~m[e1].parse \/ ~m[e2].parse \/ ~m[e1].has \/ ~m[e2].has THEN acc
        ELSE LET d        == m[e2].num - m[e1].num
                 absDelta == IF d < 0 THEN 0 - d ELSE d
             IN  IF absDelta > acc.maxAbsDelta
                 THEN [nil |-> FALSE, value |-> d, pair |-> <<e1[1], "-", e2[1]>>,
                       maxAbsDelta |-> absDelta]
                 ELSE acc

RECURSIVE MaxDeltaLoop(_, _, _, _)
MaxDeltaLoop(m, exchanges, pairs, acc) ==
    IF pairs = <<>> THEN acc
    ELSE MaxDeltaLoop(m, exchanges, Tail(pairs), MaxDeltaStep(m, exchanges, Head(pairs), acc))

\* Formatter.getMaxDelta(ss, exchanges): maxDelta (nil, or value and pair)
getMaxDelta(m, exchanges) ==
    LET NilDelta == [nil |-> TRUE, value |-> 0, pair |-> <<>>, maxAbsDelta |-> 0]
    IN  IF Len(exchanges) < 2 THEN NilDelta
        ELSE MaxDeltaLoop(m, exchanges, LoopPairs(1, 2, Len(exchanges)), NilDelta)

\* strconv of a natural number
RECURSIVE Itoa(_)
Itoa(n) ==
    IF n < 10 THEN <<DigitChars[n + 1]>>
    ELSE Itoa(n \div 10) \o <<DigitChars[(n % 10) + 1]>>

\* fmt.Sprintf("%+.2f", v) for an integral v
SprintfDelta(v) ==
    (IF v < 0 THEN <<"-">> \o Itoa(0 - v) ELSE <<"+">> \o Itoa(v)) \o <<".", "0", "0">>

\* the text of one exchange of a coin entry
RenderCell(m, ex) ==
    IF ex \notin DOMAIN m \/ ~m[ex].seen
    THEN colorize(<<ex[1], ":", "-", "-">>, ansiYellow)
    ELSE LET ps       == m[ex]
             priceStr == IF ps.str # <<>> THEN ps.str ELSE <<"-", "-">>
             col      == IF ~ps.parse THEN ansiYellow
                         ELSE IF ps.dir = DirUp THEN ansiGreen
                         ELSE IF ps.dir = DirDown THEN ansiRed
                         ELSE ansiYellow
         IN  colorize(<<ex[1], ":">> \o priceStr, col)

RECURSIVE RenderCells(_, _, _)
RenderCells(m, exchanges, j) ==
    IF j > Len(exchanges) THEN <<>>
    ELSE (IF j > 1 THEN <<"/">> ELSE <<>>)
             \o RenderCell(m, exchanges[j]) \o RenderCells(m, exchanges, j + 1)

\* the text that follows the prices of a coin entry with two or more exchanges
RenderDelta(m, exchanges, threshold) ==
    LET maxDelta == getMaxDelta(m, exchanges)
    IN  IF maxDelta.nil
        THEN <<" ">> \o colorize(<<"DELTA", "=", "-", "-">>, ansiYellow)
        ELSE LET c == DeltaColor(maxDelta.value, threshold)
             IN  <<" ">> \o colorize(<<"DELTA", "=">> \o SprintfDelta(maxDelta.value)
                                         \o <<"(">> \o maxDelta.pair \o <<")">>,
                                     IF c = 1 THEN ansiGreen
                                     ELSE IF c = -1 THEN ansiRed
                                     ELSE ansiYellow)

\* the body of Render's loop for the coin sym, with m the map of its snapshot entry
RenderEntry(m, sym, fExchanges, threshold) ==
    LET exchanges == getExchangesToDisplay(fExchanges, m)
    IN  IF Len(exchanges) = 0
        THEN sym \o <<" ">> \o colorize(<<"-", "-">>, ansiYellow)
        ELSE sym \o <<" ">> \o RenderCells(m, exchanges, 1)
                 \o (IF Len(exchanges) >= 2 THEN RenderDelta(m, exchanges, threshold)
                     ELSE <<>>)

RECURSIVE RenderEntries(_, _, _, _, _, _)
RenderEntries(st, snapshot, symbols, fExchanges, threshold, i) ==
    IF i > Len(symbols) THEN <<>>
    ELSE (IF i > 1 THEN colorize(<<" ", " ", "|", "|", " ", " ">>, ansiDim) ELSE <<>>)
             \o RenderEntry(MapAt(st, snapshot[symbols[i]].exchanges), symbols[i],
                            fExchanges, threshold)
             \o RenderEntries(st, snapshot, symbols, fExchanges, threshold, i + 1)

\* Formatter.Render(st, mode), with ord the board's order and fExchanges and
\* threshold the Formatter's fields
Render(st, ord, fExchanges, threshold, mode) ==
    (IF mode = RenderLive THEN <<CR>> ELSE <<>>)
        \o colorize(<<"[", "X", "A", "R", "B", "]", " ">>, ansiDim)
        \o RenderEntries(st, Snapshot(st), Symbols(ord), fExchanges, threshold, 1)
        \o (IF mode = RenderLive THEN <<ansiClearEOL>> ELSE <<>>)

-----------------------------------------------------------------------------
(* Sink and Repository calls *)

WriteLive(line)     == [op |-> "WriteLive", line |-> line]
WriteSnapshot(line) == [op |-> "WriteSnapshot", line |-> line]
NewLine             == [op |-> "NewLine", line |-> <<>>]

UpsertLatestPrice(ex, symbol, price) ==
    [op |-> "UpsertLatestPrice", ex |-> ex, symbol |-> symbol, price |-> price,
     payload |-> <<>>]

InsertSnapshot(payload) ==
    [op |-> "InsertSnapshot", ex |-> <<>>, symbol |-> <<>>, price |-> 0,
     payload |-> payload]

InsertSignal(symbol, delta, payload) ==
    [op |-> "InsertSignal", ex |-> <<>>, symbol |-> symbol, price |-> delta,
     payload |-> payload]

-----------------------------------------------------------------------------
(* Main loop of Service.Run: the handler of one merged tick *)

NoSignal == [emitted |-> FALSE, symbol |-> <<>>, delta |-> 0, band |-> 0, threshold |-> 0]

\* the zero value read from a Go map for a missing key
MapGet(m, k, zero) == IF k \in DOMAIN m THEN m[k] ELSE zero

\* Detect with the band left alone unless a signal fires (no reset through zero)
Detect_NoResetThroughZero(lb, sb, symbol, e, threshold) ==
    LET prevBand == MapGet(lb, symbol, 0)
        seen     == MapGet(sb, symbol, FALSE)
        fire     == e.res.band # prevBand /\ e.res.band # 0
    IN  IF ~e.res.ok
        THEN [lastBand |-> lb, seenBand |-> sb, signal |-> NoSignal]
        ELSE IF ~seen
        THEN [lastBand |-> MapPut(lb, symbol, e.res.band),
              seenBand |-> MapPut(sb, symbol, TRUE),
              signal   |-> NoSignal]
        ELSE [lastBand |-> IF fire THEN MapPut(lb, symbol, e.res.band) ELSE lb,
              seenBand |-> sb,
              signal   |-> IF fire
                           THEN [emitted |-> TRUE, symbol |-> symbol,
                                 delta |-> e.res.delta, band |-> e.res.band,
                                 threshold |-> threshold]
                           ELSE NoSignal]

\* Detect without the baseline step: the first ok evaluation may fire
Detect_NoBaseline(lb, sb, symbol, e, threshold) ==
    LET prevBand == MapGet(lb, symbol, 0)
    IN  IF ~e.res.ok
        THEN [lastBand |-> lb, seenBand |-> sb, signal |-> NoSignal]
        ELSE [lastBand |-> MapPut(lb, symbol, e.res.band),
              seenBand |-> MapPut(sb, symbol, TRUE),
              signal   |-> IF e.res.band # prevBand /\ e.res.band # 0
                           THEN [emitted |-> TRUE, symbol |-> symbol,
                                 delta |-> e.res.delta, band |-> e.res.band,
                                 threshold |-> threshold]
                           ELSE NoSignal]

\* The detector part of `case t := <-merged`, once DeltaBand returned e.res
\* (computed on e.pair): the BandState maps after it and the signal it logs.
Detect(lb, sb, symbol, e, threshold) ==
    LET prevBand == MapGet(lb, symbol, 0)
        seen     == MapGet(sb, symbol, FALSE)
    IN  IF ~e.res.ok
        THEN [lastBand |-> lb, seenBand |-> sb, signal |-> NoSignal]
        ELSE IF ~seen
        THEN [lastBand |-> MapPut(lb, symbol, e.res.band),
              seenBand |-> MapPut(sb, symbol, TRUE),
              signal   |-> NoSignal]
        ELSE [lastBand |-> MapPut(lb, symbol, e.res.band),
              seenBand |-> sb,
              signal   |-> IF e.res.band # prevBand /\ e.res.band # 0
                           THEN [emitted |-> TRUE, symbol |-> symbol,
                                 delta |-> e.res.delta, band |-> e.res.band,
                                 threshold |-> threshold]
                           ELSE NoSignal]

\* `case t := <-merged` of Service.Run with OrderManager = nil (monitor only):
\* Apply, the live line if the display changed, the latest price to the
\* repository, then DeltaBand on the tick's symbol and the BandState
\* transition.  `last` records what this run of the handler read and wrote,
\* `sink` what it wrote to the Sink.
HandleTick(t) ==
    \E r \in {Apply(syms, t)} :
    \E live \in {IF r.changed
                 THEN <<WriteLive(Render(r.st, order, depsExchanges, DeltaThreshold,
                                         RenderLive))>>
                 ELSE <<>>} :
    \E e \in DeltaBand(r.st, t.Symbol, DeltaThreshold) :
    \E d \in {Detect(lastBand, seenBand, t.Symbol, e, DeltaThreshold)} :
    \E payload \in {IF d.signal.emitted
                    THEN Render(r.st, order, depsExchanges, DeltaThreshold,
                                RenderSnapshot)
                    ELSE <<>>} :
        /\ syms' = r.st
        /\ lastBand' = d.lastBand
        /\ seenBand' = d.seenBand
        /\ sink' = live \o (IF d.signal.emitted THEN <<NewLine>> ELSE <<>>)
        /\ last' = [symbol     |-> t.Symbol,
                    changed    |-> r.changed,
                    pair       |-> e.pair,
                    res        |-> e.res,
                    seenBefore |-> MapGet(seenBand, t.Symbol, FALSE),
                    prevBand   |-> MapGet(lastBand, t.Symbol, 0),
                    signal     |-> d.signal,
                    payload    |-> payload,
                    repo       |-> IF depsRepo /\ t.PriceNum > 0
                                   THEN <<UpsertLatestPrice(t.Exchange, t.Symbol,
                                                            t.PriceNum)>>
                                   ELSE <<>>]

-----------------------------------------------------------------------------
(* Feed adapters (TickerFeed.run, readLoop), fan-in and main loop of Service.Run *)

\* capacity of a feed's outbound channel and of the merged channel
\* (make(chan port.Tick, 1024) in the source, scaled down)
OutCap    == 1
MergedCap == 1

\* the ticks the feeds read from their sockets in a run, at most (one more
\* frame is read while fewer than MaxTicks ticks were read)
MaxTicks == 2

\* the failures the feeds can be backing off from at one time, at most,
\* while the context is not cancelled
MaxFails == 6

\* the feed adapters of the model
AllFeeds == {BINANCE, BYBIT, OKX}

\* the enabled feeds: the Binance and the OKX adapter
Feeds == {BINANCE, OKX}

\* TickerFeed.Name()
Name(f) == f

\* the quote asset handed to InitializeConverter
Quote == <<"U","S","D","T">>

\* the configured list as the deployments that name instruments write it
BTCUSDT == BTC \o Quote

\* InitializeConverter(quote): the suffix of the feed's package-level converter
FeedSuffix(f) ==
    IF f = OKX THEN ConverterSuffix(<<"-">> \o Quote \o <<"-","S","W","A","P">>)
    ELSE ConverterSuffix(Quote)

\* the instrument identifiers a feed subscribes to, and so receives tickers for
Instruments(f) == {Coin2Symbol(FeedSuffix(f), depsCoins[i]) : i \in 1..Len(depsCoins)}

\* run's `backoff := 500 * time.Millisecond` and `maxBackoff := 10 * time.Second`
InitialBackoff == 500
MaxBackoff     == 10000

\* minDur that returns its first argument
minDur_NoCap(a, b) == a

\* minDur(a, b)
minDur(a, b) == IF a < b THEN a ELSE b

\* a ticker item of a frame
Item(inst, px) == [inst |-> inst, px |-> px]

\* a Bybit frame: its data field is one object, an array, or the frame is not
\* the JSON of a ticker message
BybitFrame(kind, items) == [kind |-> kind, items |-> items]

\* the prices of an exchange's ticker stream, in the order it sends them
WirePrices == <<P100, P106>>

\* the price of the next ticker of feed f's stream
StreamPrice(f) == WirePrices[(Len(readLog[f]) % Len(WirePrices)) + 1]

\* the ticker frames the exchange delivers next in the pipeline: Binance one
\* item a frame, OKX two items a frame, Bybit a single object, an array of two
\* items, or a frame that is not the JSON of a ticker message
Frames(f) ==
    IF f = OKX
    THEN {<<Item(i, P100), Item(i, P106)>> : i \in Instruments(f)}
    ELSE IF f = BYBIT
    THEN {BybitFrame("object", <<Item(i, StreamPrice(f))>>) : i \in Instruments(f)}
             \cup {BybitFrame("array", <<Item(i, P100), Item(i, P106)>>) :
                       i \in Instruments(f)}
             \cup {BybitFrame("junk", <<>>)}
    ELSE {<<Item(i, StreamPrice(f))>> : i \in Instruments(f)}

\* the onMsg callback of the Binance adapter: the ticks it sends for a frame
DecodeBinance(f, frame) ==
    LET sym == ToUpper(frame[1].inst)
        pxs == TrimSpace(frame[1].px)
    IN  IF sym = <<>> \/ pxs = <<>> THEN <<>>
        ELSE <<Tick(Name(f), sym, pxs)>>

\* the onMsg callback of the OKX adapter: the ticks it sends for a frame,
\* one per data item with non-empty fields and a price that parses
RECURSIVE DecodeOKX(_, _)
DecodeOKX(f, frame) ==
    IF frame = <<>> THEN <<>>
    ELSE LET sym == TrimSpace(frame[1].inst)
             pxs == TrimSpace(frame[1].px)
             rest == DecodeOKX(f, Tail(frame))
         IN  IF sym = <<>> \/ pxs = <<>> THEN rest
             ELSE IF ~ParseFloat(pxs).ok THEN rest
             ELSE <<Tick(Name(f), sym, pxs)>> \o rest

\* BybitDataList.UnmarshalJSON on the data field of a frame: the list left in
\* *d.  The '{' case stores the one item; the '[' case unmarshals into the
\* local arr and returns without storing it, so *d keeps its zero value.
UnmarshalJSON(frame) ==
    IF frame.kind = "object" THEN [err |-> FALSE, data |-> <<frame.items[1]>>]
    ELSE IF frame.kind = "array" THEN [err |-> FALSE, data |-> <<>>]
    ELSE [err |-> TRUE, data |-> <<>>]

\* the `for _, d := range msg.Data` loop of the Bybit adapter
RECURSIVE BybitTicks(_, _)
BybitTicks(f, data) ==
    IF data = <<>> THEN <<>>
    ELSE LET sym == ToUpper(TrimSpace(data[1].inst))
             pxs == TrimSpace(data[1].px)
             rest == BybitTicks(f, Tail(data))
         IN  IF sym = <<>> \/ pxs = <<>> THEN rest
             ELSE <<Tick(Name(f), sym, pxs)>> \o rest

\* the onMsg callback of the Bybit adapter: the ticks it sends for a frame
DecodeBybit(f, frame) ==
    LET u == UnmarshalJSON(frame)
    IN  IF u.err THEN <<>> ELSE BybitTicks(f, u.data)

Decode(f, frame) ==
    IF f = OKX THEN DecodeOKX(f, frame)
    ELSE IF f = BYBIT THEN DecodeBybit(f, frame)
    ELSE DecodeBinance(f, frame)

NoTick == [Exchange |-> <<>>, Symbol |-> <<>>, PriceStr |-> <<>>, PriceNum |-> 0]

\* what TickerFeed.run and readLoop's select never write
notRun == <<boardVars, sink, step, envVars, ctxDone, lastFrame, pending, readLog, out,
            fwd, fwdTick, merged, applied, mainPc, panicked>>

\* what the reader goroutine never writes
notReader == <<boardVars, sink, step, envVars, ctxDone, runPc, backoff, fails, subFailed,
               conn, outClosed, fwd, fwdTick, merged, applied, mainPc>>

\* what a fan-in goroutine never writes
notFwd == <<boardVars, sink, step, envVars, ctxDone, runPc, backoff, fails, subFailed,
            conn, reader, lastFrame, pending, readLog, errCh, outClosed, applied,
            mainPc, panicked>>

\* the failures the feeds are backing off from
TotalFails == fails[BINANCE] + fails[BYBIT] + fails[OKX]

\* run: `select { case <-ctx.Done(): return; default: }` at the top of the
\* connect loop; the return runs the deferred close(out)
RunTop(f) ==
    /\ ~panicked
    /\ runPc[f] = "top"
    /\ IF ctxDone
       THEN /\ runPc' = [runPc EXCEPT ![f] = "done"]
            /\ outClosed' = [outClosed EXCEPT ![f] = TRUE]
       ELSE /\ runPc' = [runPc EXCEPT ![f] = "dial"]
            /\ UNCHANGED outClosed
    /\ UNCHANGED <<notRun, backoff, fails, subFailed, conn, reader, errCh>>

\* run: DialContext fails (always so once the context is cancelled); the
\* loop goes to time.Sleep(backoff)
DialFail(f) ==
    /\ ~panicked
    /\ runPc[f] = "dial"
    /\ TotalFails < MaxFails \/ ctxDone
    /\ runPc' = [runPc EXCEPT ![f] = "sleep"]
    /\ fails' = [fails EXCEPT ![f] = @ + 1]
    /\ UNCHANGED <<notRun, backoff, subFailed, conn, reader, errCh, outClosed>>

\* run: DialContext succeeds.  The Binance and the OKX adapter reset backoff
\* here; the OKX and the Bybit adapter go on to write their subscription, the
\* Binance adapter (streams named in the URL) enters readLoop, which makes
\* errCh and starts the reader goroutine.
DialOk(f) ==
    /\ ~panicked
    /\ runPc[f] = "dial"
    /\ ~ctxDone
    /\ conn' = [conn EXCEPT ![f] = "open"]
    /\ subFailed' = [subFailed EXCEPT ![f] = FALSE]
    /\ IF f = BYBIT
       THEN UNCHANGED <<backoff, fails>>
       ELSE /\ backoff' = [backoff EXCEPT ![f] = InitialBackoff]
            /\ fails' = [fails EXCEPT ![f] = 0]
    /\ IF f \in {OKX, BYBIT}
       THEN /\ runPc' = [runPc EXCEPT ![f] = "subscribe"]
            /\ UNCHANGED <<reader, errCh>>
       ELSE /\ runPc' = [runPc EXCEPT ![f] = "readLoop"]
            /\ reader' = [reader EXCEPT ![f] = "read"]
            /\ errCh' = [errCh EXCEPT ![f] = FALSE]
    /\ UNCHANGED <<notRun, outClosed>>

\* run: the subscription is written; the Bybit adapter resets backoff here;
\* readLoop is entered: it makes errCh and starts the reader goroutine
Subscribe(f) ==
    /\ ~panicked
    /\ runPc[f] = "subscribe"
    /\ runPc' = [runPc EXCEPT ![f] = "readLoop"]
    /\ reader' = [reader EXCEPT ![f] = "read"]
    /\ errCh' = [errCh EXCEPT ![f] = FALSE]
    /\ IF f = BYBIT
       THEN /\ backoff' = [backoff EXCEPT ![f] = InitialBackoff]
            /\ fails' = [fails EXCEPT ![f] = 0]
       ELSE UNCHANGED <<backoff, fails>>
    /\ UNCHANGED <<notRun, subFailed, conn, outClosed>>

\* run: the write of the subscription fails.  The Bybit adapter closes the
\* socket and goes to time.Sleep(backoff); the OKX adapter logs the error and
\* enters readLoop all the same.
SubscribeFail(f) ==
    /\ ~panicked
    /\ runPc[f] = "subscribe"
    /\ subFailed' = [subFailed EXCEPT ![f] = TRUE]
    /\ IF f = BYBIT
       THEN /\ TotalFails < MaxFails \/ ctxDone
            /\ conn' = [conn EXCEPT ![f] = "closed"]
            /\ runPc' = [runPc EXCEPT ![f] = "sleep"]
            /\ fails' = [fails EXCEPT ![f] = @ + 1]
            /\ UNCHANGED <<reader, errCh>>
       ELSE /\ runPc' = [runPc EXCEPT ![f] = "readLoop"]
            /\ reader' = [reader EXCEPT ![f] = "read"]
            /\ errCh' = [errCh EXCEPT ![f] = FALSE]
            /\ UNCHANGED <<conn, fails>>
    /\ UNCHANGED <<notRun, backoff, outClosed>>

\* run: time.Sleep(backoff); backoff = minDur(backoff*2, maxBackoff); then
\* back to the top of the connect loop
Sleep(f) ==
    /\ ~panicked
    /\ runPc[f] = "sleep"
    /\ runPc' = [runPc EXCEPT ![f] = "top"]
    /\ backoff' = [backoff EXCEPT ![f] = minDur(@ * 2, MaxBackoff)]
    /\ UNCHANGED <<notRun, fails, subFailed, conn, reader, errCh, outClosed>>

\* readLoop: `case <-ctx.Done(): return ctx.Err()`
ReadLoopCtx(f) ==
    /\ ~panicked
    /\ runPc[f] = "readLoop"
    /\ ctxDone
    /\ runPc' = [runPc EXCEPT ![f] = "closing"]
    /\ UNCHANGED <<notRun, backoff, fails, subFailed, conn, reader, errCh, outClosed>>

\* readLoop: `case err := <-errCh: return err`
ReadLoopErr(f) ==
    /\ ~panicked
    /\ runPc[f] = "readLoop"
    /\ errCh[f]
    /\ errCh' = [errCh EXCEPT ![f] = FALSE]
    /\ runPc' = [runPc EXCEPT ![f] = "closing"]
    /\ UNCHANGED <<notRun, backoff, fails, subFailed, conn, reader, outClosed>>

\* CloseConn that ends run whenever readLoop returned
CloseConn_ReturnOnError(f) ==
    /\ ~panicked
    /\ runPc[f] = "closing"
    /\ conn' = [conn EXCEPT ![f] = "closed"]
    /\ runPc' = [runPc EXCEPT ![f] = "done"]
    /\ outClosed' = [outClosed EXCEPT ![f] = TRUE]
    /\ UNCHANGED <<notRun, backoff, fails, subFailed, reader, errCh>>

\* run after readLoop returned: conn.Close(); with the context cancelled
\* return (the deferred close(out) runs), else go to time.Sleep(backoff)
CloseConn(f) ==
    /\ ~panicked
    /\ runPc[f] = "closing"
    /\ conn' = [conn EXCEPT ![f] = "closed"]
    /\ IF ctxDone
       THEN /\ runPc' = [runPc EXCEPT ![f] = "done"]
            /\ outClosed' = [outClosed EXCEPT ![f] = TRUE]
            /\ UNCHANGED fails
       ELSE /\ runPc' = [runPc EXCEPT ![f] = "sleep"]
            /\ fails' = [fails EXCEPT ![f] = @ + 1]
            /\ UNCHANGED outClosed
    /\ UNCHANGED <<notRun, backoff, subFailed, reader, errCh>>

\* the ticks the feeds have read from their sockets so far
TotalRead == Len(readLog[BINANCE]) + Len(readLog[BYBIT]) + Len(readLog[OKX])

\* reader goroutine: conn.ReadMessage() returns one of the frames of S and
\* onMsg decodes it
ReadFrameFrom(f, S) ==
    /\ ~panicked
    /\ reader[f] = "read"
    /\ conn[f] = "open"
    /\ TotalRead < MaxTicks
    /\ \E fr \in S :
          /\ lastFrame' = [lastFrame EXCEPT ![f] = <<fr>>]
          /\ pending' = [pending EXCEPT ![f] = Decode(f, fr)]
          /\ readLog' = [readLog EXCEPT ![f] = @ \o Decode(f, fr)]
          /\ reader' = [reader EXCEPT ![f] =
                            IF Decode(f, fr) = <<>> THEN "read" ELSE "send"]
    /\ UNCHANGED <<notReader, errCh, out, panicked>>

\* reader goroutine: a frame of the subscribed ticker stream arrives
ReadFrame(f) == ReadFrameFrom(f, Frames(f))

\* reader goroutine: conn.ReadMessage() fails (socket closed, network error,
\* read deadline); the error goes into errCh and the goroutine returns
ReadError(f) ==
    /\ ~panicked
    /\ reader[f] = "read"
    /\ errCh' = [errCh EXCEPT ![f] = TRUE]
    /\ reader' = [reader EXCEPT ![f] = "done"]
    /\ UNCHANGED <<notReader, lastFrame, pending, readLog, out, panicked>>

\* ReaderSend that sends the ticks of a frame last item first
ReaderSend_LastFirst(f) ==
    /\ ~panicked
    /\ reader[f] = "send"
    /\ IF outClosed[f]
       THEN /\ panicked' = TRUE
            /\ UNCHANGED <<out, pending, reader>>
       ELSE /\ Len(out[f]) < OutCap
            /\ out' = [out EXCEPT ![f] = Append(@, pending[f][Len(pending[f])])]
            /\ pending' = [pending EXCEPT ![f] = SubSeq(@, 1, Len(@) - 1)]
            /\ reader' = [reader EXCEPT ![f] =
                              IF Len(pending[f]) = 1 THEN "read" ELSE "send"]
            /\ UNCHANGED panicked
    /\ UNCHANGED <<notReader, lastFrame, readLog, errCh>>

\* reader goroutine, inside onMsg: `out <- tick`; blocks while the buffer is
\* full, panics when the channel is closed
ReaderSend(f) ==
    /\ ~panicked
    /\ reader[f] = "send"
    /\ IF outClosed[f]
       THEN /\ panicked' = TRUE
            /\ UNCHANGED <<out, pending, reader>>
       ELSE /\ Len(out[f]) < OutCap
            /\ out' = [out EXCEPT ![f] = Append(@, Head(pending[f]))]
            /\ pending' = [pending EXCEPT ![f] = Tail(@)]
            /\ reader' = [reader EXCEPT ![f] =
                              IF Tail(pending[f]) = <<>> THEN "read" ELSE "send"]
            /\ UNCHANGED panicked
    /\ UNCHANGED <<notReader, lastFrame, readLog, errCh>>

\* fan-in goroutine: `case <-ctx.Done(): return`
FwdCtx(f) ==
    /\ ~panicked
    /\ fwd[f] = "select"
    /\ ctxDone
    /\ fwd' = [fwd EXCEPT ![f] = "done"]
    /\ UNCHANGED <<notFwd, out, fwdTick, merged>>

\* fan-in goroutine: `case t, ok := <-in` with a tick in the buffer
FwdRecv(f) ==
    /\ ~panicked
    /\ fwd[f] = "select"
    /\ out[f] # <<>>
    /\ fwdTick' = [fwdTick EXCEPT ![f] = Head(out[f])]
    /\ out' = [out EXCEPT ![f] = Tail(@)]
    /\ fwd' = [fwd EXCEPT ![f] = "send"]
    /\ UNCHANGED <<notFwd, merged>>

\* fan-in goroutine: `case t, ok := <-in` on the closed, drained channel
FwdClosed(f) ==
    /\ ~panicked
    /\ fwd[f] = "select"
    /\ out[f] = <<>>
    /\ outClosed[f]
    /\ fwd' = [fwd EXCEPT ![f] = "done"]
    /\ UNCHANGED <<notFwd, out, fwdTick, merged>>

\* FwdSend that drops the tick when the merged buffer is full
FwdSend_DropWhenFull(f) ==
    /\ ~panicked
    /\ fwd[f] = "send"
    /\ merged' = IF Len(merged) < MergedCap THEN Append(merged, fwdTick[f])
                 ELSE merged
    /\ fwdTick' = [fwdTick EXCEPT ![f] = NoTick]
    /\ fwd' = [fwd EXCEPT ![f] = "select"]
    /\ UNCHANGED <<notFwd, out>>

\* fan-in goroutine: `merged <- t`; blocks while the merged buffer is full
FwdSend(f) ==
    /\ ~panicked
    /\ fwd[f] = "send"
    /\ Len(merged) < MergedCap
    /\ merged' = Append(merged, fwdTick[f])
    /\ fwdTick' = [fwdTick EXCEPT ![f] = NoTick]
    /\ fwd' = [fwd EXCEPT ![f] = "select"]
    /\ UNCHANGED <<notFwd, out>>

\* main loop: `case <-ctx.Done()`: a newline to the sink, then return
MainCtx ==
    /\ ~panicked
    /\ mainPc = "run"
    /\ ctxDone
    /\ sink' = <<NewLine>>
    /\ mainPc' = "done"
    /\ UNCHANGED <<boardVars, step, envVars, ctxDone, runPc, backoff, fails,
                   subFailed, conn, reader, lastFrame, pending, readLog, errCh, out,
                   outClosed, fwd, fwdTick, merged, applied, panicked>>

\* main loop: `case t := <-merged`; applied logs the tick under its exchange tag
MainRecv ==
    /\ ~panicked
    /\ mainPc = "run"
    /\ merged # <<>>
    /\ HandleTick(Head(merged))
    /\ merged' = Tail(merged)
    /\ applied' = [applied EXCEPT ![Head(merged).Exchange] = Append(@, Head(merged))]
    /\ UNCHANGED <<step, envVars, ctxDone, runPc, backoff, fails, subFailed, conn,
                   reader, lastFrame, pending, readLog, errCh, out, outClosed, fwd,
                   fwdTick, mainPc, panicked>>

\* SIGINT/SIGTERM: the root context is cancelled
Cancel ==
    /\ ~panicked
    /\ ~ctxDone
    /\ ctxDone' = TRUE
    /\ UNCHANGED <<boardVars, sink, step, envVars, runPc, backoff, fails, subFailed, conn,
                   reader, lastFrame, pending, readLog, errCh, out, outClosed, fwd,
                   fwdTick, merged, applied, mainPc, panicked>>

-----------------------------------------------------------------------------
(* Configuration: config.Load and Config.GetEnabledExchanges *)

\* normalizeSymbols that keeps the later occurrences of a token
normalizeSymbols_KeepDuplicates(in) == NewStateOrder(in)

\* the loop of normalizeSymbols, with the locals `seen` and `out` (here acc)
RECURSIVE NormalizeLoop(_, _, _)
NormalizeLoop(in, seen, acc) ==
    IF in = <<>> THEN acc
    ELSE LET u == ToUpper(TrimSpace(Head(in)))
         IN  IF u = <<>> \/ u \in seen THEN NormalizeLoop(Tail(in), seen, acc)
             ELSE NormalizeLoop(Tail(in), seen \cup {u}, Append(acc, u))

\* normalizeSymbols(in), which validate stores back into cfg.Symbols.List
normalizeSymbols(in) == NormalizeLoop(in, {}, <<>>)

\* Config.GetEnabledExchanges(): the exchanges of monitor.exchanges that are
\* enabled, in list order, or every enabled exchange in sorted order
GetEnabledExchanges(cf) ==
    IF Len(cf.monitor) > 0
    THEN SelectSeq(cf.monitor, LAMBDA ex : ex \in cf.enabled)
    ELSE SortStrings(cf.enabled)

\* extractPriceFeedsFromWSManager: the feeds of the enabled exchanges
extractPriceFeeds(enabledExchanges) ==
    {enabledExchanges[i] : i \in 1..Len(enabledExchanges)} \cap AllFeeds

\* a configuration file with the list c and the enabled exchanges fs, no
\* monitor list and no storage; `file` keeps symbols.list as the file has it
PlainConfig(c, fs) ==
    [file |-> c, list |-> c, enabled |-> fs, spot |-> {}, monitor |-> <<>>,
     redis |-> FALSE, sqlite |-> FALSE]

\* no operation was called yet
NoCall == [op |-> "", arg |-> NoTick, ret |-> FALSE, conv |-> <<>>, str |-> <<>>,
           res |-> <<>>, prevOp |-> "", prevArg |-> NoTick, prevRet |-> FALSE,
           prevStr |-> <<>>]

\* ------------------------------------------------------------------
\* ArbitrageRepo: the table arbitrage_positions (sqlite/arbitrage_repo.go)
\* ------------------------------------------------------------------

\* float64 amounts of money are counted in tenths: 125 is 12.5
Tenths(whole, tenth) == whole * 10 + tenth

\* a column value: NULL, or a value
Null == [valid |-> FALSE, v |-> 0]

Value(x) == [valid |-> TRUE, v |-> x]

\* model.ArbitragePosition, the fields the repository stores and loads
ArbitragePosition(id, status, openTime, closeTime, pnl) ==
    [ID |-> id, Status |-> status, OpenTime |-> openTime, CloseTime |-> closeTime,
     RealizedPnL |-> pnl]

NoPosition == ArbitragePosition("", "", 0, 0, 0)

\* what a call of the repository returned
Returned(op, id, err, pos, list) ==
    [op |-> op, id |-> id, err |-> err, pos |-> pos, list |-> list]

\* Scan of a column into a sql.NullInt64: NULL gives Valid = false; an INTEGER
\* is taken as it is; a REAL (float64) is formatted with the shortest
\* representation and parsed as a decimal integer, which fails for a value with
\* a fraction
ScanNullInt64(col, real) ==
    IF ~col.valid THEN [err |-> FALSE, Valid |-> FALSE, Int64 |-> 0]
    ELSE IF ~real THEN [err |-> FALSE, Valid |-> TRUE, Int64 |-> col.v]
    ELSE IF col.v % 10 = 0 THEN [err |-> FALSE, Valid |-> TRUE, Int64 |-> col.v \div 10]
    ELSE [err |-> TRUE, Valid |-> FALSE, Int64 |-> 0]

\* INSERT INTO arbitrage_positions: id is the primary key; close_time and
\* realized_pnl are not among the inserted columns
InsertPosition(tbl, pos) ==
    IF pos.ID \in DOMAIN tbl THEN [err |-> TRUE, tbl |-> tbl]
    ELSE [err |-> FALSE,
          tbl |-> [i \in DOMAIN tbl \cup {pos.ID} |->
                     IF i = pos.ID
                     THEN [status |-> pos.Status, open_time |-> pos.OpenTime,
                           close_time |-> Null, realized_pnl |-> Null]
                     ELSE tbl[i]]]

\* UPDATE arbitrage_positions SET status, close_time, realized_pnl WHERE id
UpdateRow(tbl, pos) ==
    [i \in DOMAIN tbl |->
        IF i = pos.ID
        THEN [tbl[i] EXCEPT !.status = pos.Status, !.close_time = Value(pos.CloseTime),
                            !.realized_pnl = Value(pos.RealizedPnL)]
        ELSE tbl[i]]

\* SELECT ... WHERE id=? and the Scan of its row
SelectPosition(tbl, id) ==
    IF id \notin DOMAIN tbl THEN [err |-> TRUE, pos |-> NoPosition]
    ELSE LET closeTime == ScanNullInt64(tbl[id].close_time, FALSE)
             realizedPnL == ScanNullInt64(tbl[id].realized_pnl, TRUE)
         IN  IF closeTime.err \/ realizedPnL.err THEN [err |-> TRUE, pos |-> NoPosition]
             ELSE [err |-> FALSE,
                   pos |-> ArbitragePosition(id, tbl[id].status, tbl[id].open_time,
                                             IF closeTime.Valid THEN closeTime.Int64 ELSE 0,
                                             0)]

\* the ids of sequence s are in the order ORDER BY open_time DESC allows
OpenTimeDesc(tbl, s) ==
    \A i, j \in 1..Len(s) : i < j => tbl[s[i]].open_time >= tbl[s[j]].open_time

\* SELECT ... WHERE status='open' ORDER BY open_time DESC: the orders of the
\* result the query may produce
SelectOpen(tbl) ==
    LET open == {i \in DOMAIN tbl : tbl[i].status = "open"}
    IN  {s \in [1..Cardinality(open) -> open] :
            /\ \A i, j \in 1..Cardinality(open) : i # j => s[i] # s[j]
            /\ OpenTimeDesc(tbl, s)}


\* ------------------------------------------------------------------
\* WebSocketManager (websocket/manager.go)
\* ------------------------------------------------------------------

\* DefaultRetryConfig.MaxRetries
MaxRetries == 3

\* NewWebSocketManager, with the exchanges that have a client in each map,
\* the local failedExchanges of Initialize and what Initialize returned
NewWebSocketManager ==
    [spotClients |-> {}, perpetualClients |-> {}, failedExchanges |-> <<>>,
     done |-> FALSE, err |-> FALSE]

\* registerWebSocket: the error, which is that no price feed factory is
\* registered for the exchange
registerWebSocket(exchangeName) == exchangeName \notin AllFeeds

\* registerWebSocketWithRetry: the attempts 0..MaxRetries, ended by the first
\* that succeeds; the error
RECURSIVE registerWebSocketWithRetry(_, _)
registerWebSocketWithRetry(exchangeName, attempt) ==
    IF attempt > MaxRetries THEN TRUE
    ELSE IF registerWebSocket(exchangeName)
         THEN registerWebSocketWithRetry(exchangeName, attempt + 1)
         ELSE FALSE

\* the trade types of an exchange that have a URL: validate wants the
\* perpetual URL of every enabled exchange, the spot URL is optional
TradeTypes(cf, exchangeName) ==
    (IF exchangeName \in cf.spot THEN <<"spot">> ELSE <<>>) \o <<"perpetual">>

\* the inner loop of Initialize, over the trade types of one exchange
RECURSIVE RegisterTypes(_, _, _)
RegisterTypes(exchangeName, types, m) ==
    IF types = <<>> THEN m
    ELSE RegisterTypes(exchangeName, Tail(types),
             IF registerWebSocketWithRetry(exchangeName, 0)
             THEN [m EXCEPT !.failedExchanges = Append(@, <<exchangeName, Head(types)>>)]
             ELSE IF Head(types) = "spot"
                  THEN [m EXCEPT !.spotClients = @ \cup {exchangeName}]
                  ELSE [m EXCEPT !.perpetualClients = @ \cup {exchangeName}])

\* the outer loop of Initialize, over the enabled exchanges
RECURSIVE InitializeLoop(_, _, _)
InitializeLoop(cf, exchanges, m) ==
    IF exchanges = <<>> THEN m
    ELSE InitializeLoop(cf, Tail(exchanges),
                        RegisterTypes(Head(exchanges), TradeTypes(cf, Head(exchanges)), m))

\* WebSocketManager.Initialize: the manager it leaves, with the error it
\* returns: as many registrations failed as there are enabled exchanges
InitializeManager(cf) ==
    LET enabledExchanges == GetEnabledExchanges(cf)
        m == InitializeLoop(cf, enabledExchanges, NewWebSocketManager)
    IN  [m EXCEPT !.done = TRUE,
                  !.err = (Len(m.failedExchanges) = Len(enabledExchanges))]

\* the error of WebSocketManager.Initialize
Initialize(cf) == InitializeManager(cf).err

\* ------------------------------------------------------------------
\* MarginManager (service/margin_manager.go); amounts in USD
\* ------------------------------------------------------------------

\* NewMarginManager's MaxOrderCount
MaxOrderCount == 5

\* NewMarginManager; MaxMarginPerOrder is 5 %.  ActiveOrders: order id ->
\* ActiveOrder, Positions: symbol -> status of the PositionTracking.  closes
\* counts the calls of MarkPositionClosed that found a position, ret is what
\* the latest call returned.
NewMarginManager(totalMargin) ==
    [TotalMargin |-> totalMargin, UsedMargin |-> 0, AvailableMargin |-> totalMargin,
     RealizedPnL |-> 0, ActiveOrders |-> <<>>, Positions |-> <<>>,
     closes |-> 0, op |-> "", ret |-> ""]

\* CanExecuteOrder: the error ("" for nil)
CanExecuteOrder(m, symbol, requiredMargin) ==
    IF Cardinality(DOMAIN m.ActiveOrders) >= MaxOrderCount
    THEN "max order count reached"
    ELSE IF requiredMargin * 100 > m.TotalMargin * 5
    THEN "order margin exceeds limit"
    ELSE IF requiredMargin > m.AvailableMargin
    THEN "insufficient margin"
    ELSE ""

\* RegisterOrder: the error and the manager after
RegisterOrder(m, orderID, symbol, marginUsed) ==
    IF marginUsed > m.AvailableMargin
    THEN [err |-> "insufficient margin at registration time", mm |-> m]
    ELSE [err |-> "",
          mm |-> [m EXCEPT
                    !.ActiveOrders = MapPut(@, orderID,
                                            [Symbol |-> symbol, MarginUsed |-> marginUsed,
                                             Status |-> "PENDING"]),
                    !.UsedMargin = @ + marginUsed,
                    !.AvailableMargin = @ - marginUsed]]

\* ExecuteOrder: the error and the manager after
ExecuteOrder(m, orderID, symbol) ==
    IF orderID \notin DOMAIN m.ActiveOrders
    THEN [err |-> "order not found", mm |-> m]
    ELSE [err |-> "",
          mm |-> [m EXCEPT !.ActiveOrders[orderID].Status = "EXECUTED",
                           !.Positions = MapPut(@, symbol, "OPEN")]]

\* MarkPositionClosed releases the margin of the first order of the symbol that
\* the iteration over the map ActiveOrders meets, whatever its status: the
\* results the map order allows
MarkPositionClosed(m, symbol, realizedProfit) ==
    IF symbol \notin DOMAIN m.Positions
    THEN {[err |-> "position not found", mm |-> m]}
    ELSE LET closed == [m EXCEPT !.Positions[symbol] = "CLOSED", !.closes = @ + 1]
             ofSymbol == {o \in DOMAIN m.ActiveOrders : m.ActiveOrders[o].Symbol = symbol}
         IN  IF ofSymbol = {} THEN {[err |-> "", mm |-> closed]}
             ELSE {[err |-> "",
                    mm |-> [closed EXCEPT
                              !.UsedMargin = @ - m.ActiveOrders[o].MarginUsed,
                              !.AvailableMargin = @ + m.ActiveOrders[o].MarginUsed,
                              !.RealizedPnL = @ + realizedProfit,
                              !.ActiveOrders[o].Status = "CLOSED"]] : o \in ofSymbol}

\* CalculateRequiredMargin, for leverage 1 and quantity 1
CalculateRequiredMargin(entryPrice) == entryPrice

\* ------------------------------------------------------------------
\* OrderDeduplicator and DuplicateOrderGuard (part_025); times in seconds
\* ------------------------------------------------------------------

\* NewOrderDeduplicator
DeduplicationWindow == 5

CooldownPeriod == 10

MaxOrdersPerSymbol == 2

\* NewDuplicateOrderGuard
blacklistTTL == 30

MapDel(m, k) == [x \in DOMAIN m \ {k} |-> m[x]]

\* the RecentOrder that OrderDeduplicator.RegisterOrder stores under the symbol
RecentOrder(orderID, symbol, direction, t) ==
    [OrderID |-> orderID, Symbol |-> symbol, Direction |-> direction, PlacedAt |-> t,
     Status |-> "PENDING", ExecutedAt |-> 0]

countPendingOrders(recentOrders, symbol) ==
    Cardinality({s \in DOMAIN recentOrders :
                    /\ recentOrders[s].Symbol = symbol
                    /\ recentOrders[s].Status \in {"PENDING", "EXECUTING"}})

\* OrderDeduplicator.CanPlaceOrder at time t: the reason of the refusal, ""
\* when the order may be placed
CanPlaceOrder(recentOrders, symbol, direction, t) ==
    IF /\ symbol \in DOMAIN recentOrders
       /\ recentOrders[symbol].Status # "EXECUTED"
       /\ recentOrders[symbol].Status # "FAILED"
    THEN LET recent == recentOrders[symbol]
             timeSinceLast == t - recent.PlacedAt
         IN  IF timeSinceLast < DeduplicationWindow /\ recent.Direction = direction
             THEN "same order within deduplication window"
             ELSE IF recent.Status = "EXECUTED" /\ timeSinceLast < CooldownPeriod
             THEN "cooldown period not met"
             ELSE IF countPendingOrders(recentOrders, symbol) >= MaxOrdersPerSymbol
             THEN "too many pending orders"
             ELSE ""
    ELSE ""

\* OrderDeduplicator.UpdateOrderStatus at time t; an unknown order id changes
\* nothing
UpdateOrderStatus(recentOrders, orderID, status, t) ==
    [s \in DOMAIN recentOrders |->
        IF recentOrders[s].OrderID = orderID
        THEN [recentOrders[s] EXCEPT !.Status = status,
                                     !.ExecutedAt = IF status = "EXECUTED" THEN t ELSE @]
        ELSE recentOrders[s]]

\* OrderDeduplicator.CleanupExpiredOrders at time t: executed and failed orders
\* whose ExecutedAt is more than a minute ago are deleted
CleanupExpiredOrders(recentOrders, t) ==
    [s \in {x \in DOMAIN recentOrders :
               ~ (/\ recentOrders[x].Status \in {"EXECUTED", "FAILED"}
                  /\ t - recentOrders[x].ExecutedAt > 60)} |-> recentOrders[s]]

\* NewDuplicateOrderGuard: failedSymbols (symbol -> time of the failure), the
\* holders of the read lock and of the write lock of its RWMutex, who is
\* reading or writing the map, and whether the runtime ended the process on a
\* concurrent map access
NewDuplicateOrderGuard ==
    [failedSymbols |-> <<>>, rlock |-> {}, wlock |-> "", reading |-> {}, writing |-> {},
     fatal |-> FALSE]

\* the blacklist check of DuplicateOrderGuard.CanPlaceOrder at time t:
\* "refuse" for a fresh entry, "delete" for an expired one, "pass" for none
Blacklisted(failedSymbols, symbol, t) ==
    IF symbol \notin DOMAIN failedSymbols THEN "pass"
    ELSE IF t - failedSymbols[symbol] < blacklistTTL THEN "refuse"
    ELSE "delete"

\* DuplicateOrderGuard.CanPlaceOrder at time t, run alone: the reason of the
\* refusal ("" for none) and failedSymbols after
GuardCanPlaceOrder(g, recentOrders, symbol, direction, t) ==
    LET b == Blacklisted(g.failedSymbols, symbol, t)
    IN  IF b = "refuse" THEN [reason |-> "symbol in blacklist", dog |-> g]
        ELSE [reason |-> CanPlaceOrder(recentOrders, symbol, direction, t),
              dog |-> IF b = "delete"
                      THEN [g EXCEPT !.failedSymbols = MapDel(@, symbol)]
                      ELSE g]

\* DuplicateOrderGuard.MarkOrderFailure at time t, run alone
MarkOrderFailure(g, symbol, t) == [g EXCEPT !.failedSymbols = MapPut(@, symbol, t)]

\* the blacklist part of DuplicateOrderGuard.ValidateAndCleanup at time t
CleanupBlacklist(failedSymbols, t) ==
    [s \in {x \in DOMAIN failedSymbols : ~ (t - failedSymbols[x] > blacklistTTL)} |->
        failedSymbols[s]]

\* ------------------------------------------------------------------
\* ArbitrageExecutor (part_026); rates in 1/10000 of a percent
\* ------------------------------------------------------------------

\* AnalyzeOpportunity.IsOpportunity under NewArbitrageExecutor's defaults: the
\* spread in percent of the lower price, less the taker and maker fees
\* (0.04 + 0.01, or 0.03 + 0.02) and the funding fee
\* ((0.001 + 0.0008) * 1 / 8 * 100), is at least MinProfitPercentage (0.1)
IsOpportunity(binancePrice, bybitPrice) ==
    LET low    == IF bybitPrice > binancePrice THEN binancePrice ELSE bybitPrice
        spread == IF bybitPrice > binancePrice THEN bybitPrice - binancePrice
                  ELSE binancePrice - bybitPrice
    IN  /\ binancePrice # bybitPrice
        /\ spread * 1000000 - (500 + 225) * low >= 1000 * low

\* CalculateOrderDetails: the error, and the direction
CalculateOrderDetails(binancePrice, bybitPrice) ==
    [err |-> ~IsOpportunity(binancePrice, bybitPrice),
     Direction |-> IF bybitPrice > binancePrice THEN "BUY_BINANCE_SELL_BYBIT"
                   ELSE "BUY_BYBIT_SELL_BINANCE"]

\* ------------------------------------------------------------------
\* OrderManager (service/order_manager.go)
\* ------------------------------------------------------------------

\* the goroutines that call ExecuteArbitrage
Callers == {"c1", "c2"}

\* a caller that is in no call of ExecuteArbitrage
Idle == [pc |-> "idle", call |-> 0, symbol |-> <<>>, binancePrice |-> 0, bybitPrice |-> 0,
         id |-> 0, margin |-> 0, ret |-> ""]

\* NewOrderManager: the calls of ExecuteArbitrage made, and per caller its call
NewOrderManager == [calls |-> 0, exec |-> [c \in Callers |-> Idle]]


\* ------------------------------------------------------------------
\* Goroutines calling the DuplicateOrderGuard concurrently
\* ------------------------------------------------------------------

Threads == {"t1", "t2"}

\* a goroutine outside the guard: the method it runs, where it is in it, the
\* symbol of the call and what the call returned
IdleThread == [pc |-> "idle", op |-> "", symbol |-> <<>>, ret |-> ""]

\* ------------------------------------------------------------------
\* FundingRateSyncer (part_023); intervals in seconds
\* ------------------------------------------------------------------

\* no syncer yet: where Start is, the ticker and the tick buffered in its
\* channel, where the goroutine is, the syncs counted, the syncs counted since
\* Start returned, the symbols asked of Binance by the last sync, and whether
\* the context is cancelled
NoSyncer ==
    [pc |-> "none", interval |-> 0, symbols |-> <<>>, ticker |-> "none", tick |-> 0,
     go |-> "none", syncs |-> 0, after |-> 0, asked |-> <<>>, cancelled |-> FALSE]

\* NewFundingRateSyncer: an interval of zero or less becomes one hour
NewFundingRateSyncer(interval) ==
    [NoSyncer EXCEPT !.pc = "new",
                     !.interval = IF interval <= 0 THEN 3600 ELSE interval]

\* syncFundingRates: the symbols asked of Binance, those that are empty or end
\* in 'T' (lines 69-76)
syncFundingRates(symbols) ==
    SelectSeq(symbols, LAMBDA symbol : ~ (Len(symbol) > 0 /\ symbol[Len(symbol)] # "T"))


\* the state of the repository, the WebSocket manager, the order execution and
\* the syncer after construction
TradeInit ==
    /\ positions = <<>>
    /\ repoRet = Returned("", "", FALSE, NoPosition, <<>>)
    /\ wsm = NewWebSocketManager
    /\ mm = NewMarginManager(10000)
    /\ od = <<>>
    /\ dog = NewDuplicateOrderGuard
    /\ now = 0
    /\ om = NewOrderManager
    /\ thr = [t \in Threads |-> IdleThread]
    /\ syncer = NoSyncer

\* one step of feed f's adapter or of its fan-in goroutine
FeedStep(f) ==
    \/ RunTop(f)
    \/ DialFail(f)
    \/ DialOk(f)
    \/ Subscribe(f)
    \/ SubscribeFail(f)
    \/ Sleep(f)
    \/ ReadLoopCtx(f)
    \/ ReadLoopErr(f)
    \/ CloseConn(f)
    \/ ReadFrame(f)
    \/ ReadError(f)
    \/ ReaderSend(f)
    \/ FwdCtx(f)
    \/ FwdRecv(f)
    \/ FwdClosed(f)
    \/ FwdSend(f)

\* every action is guarded by ~panicked: a panic ends the process
NextFeed ==
    \/ \E f \in depsFeeds : FeedStep(f)
    \/ MainCtx
    \/ MainRecv
    \/ Cancel

\* the ticks the merged channel delivers: the configured coin on three
\* exchanges with parseable and unparseable prices, a coin that is not
\* configured, and a tick with an empty price field
TickExchanges == {BINANCE, BYBIT, OKX}
TickPrices    == {P100, P106, PNA}

Ticks ==
    {Tick(ex, BTC, px) : ex \in TickExchanges, px \in TickPrices}
        \cup {Tick(BINANCE, ETH, P100), Tick(BYBIT, BTC, <<>>)}

NoRun == [symbol |-> <<>>, changed |-> FALSE, pair |-> <<>>, res |-> NotOk,
          seenBefore |-> FALSE, prevBand |-> 0, signal |-> NoSignal,
          payload |-> <<>>, repo |-> <<>>]

\* The state after NewService(deps) with deps.Coins = c and deps.Feeds = fs
\* and the start of Service.Run: every feed in g is connected with its reader goroutine
\* reading, the others are at the top of their connect loop; the initial
\* live line is written.  No storage is configured.
InitState(c, fs, g) ==
    /\ syms = NewState(c)
    /\ lastBand = <<>>
    /\ seenBand = <<>>
    /\ last = NoRun
    /\ step = 0
    /\ depsCoins = c
    /\ depsFeeds = fs
    /\ ctxDone = FALSE
    /\ runPc = [f \in AllFeeds |-> IF f \in g THEN "readLoop" ELSE "top"]
    /\ backoff = [f \in AllFeeds |-> InitialBackoff]
    /\ fails = [f \in AllFeeds |-> 0]
    /\ subFailed = [f \in AllFeeds |-> FALSE]
    /\ conn = [f \in AllFeeds |-> IF f \in g THEN "open" ELSE "closed"]
    /\ reader = [f \in AllFeeds |-> IF f \in g THEN "read" ELSE "done"]
    /\ lastFrame = [f \in AllFeeds |-> <<>>]
    /\ pending = [f \in AllFeeds |-> <<>>]
    /\ readLog = [f \in AllFeeds |-> <<>>]
    /\ errCh = [f \in AllFeeds |-> FALSE]
    /\ out = [f \in AllFeeds |-> <<>>]
    /\ outClosed = [f \in AllFeeds |-> FALSE]
    /\ fwd = [f \in AllFeeds |-> "select"]
    /\ fwdTick = [f \in AllFeeds |-> NoTick]
    /\ merged = <<>>
    /\ applied = [f \in AllFeeds |-> <<>>]
    /\ mainPc = "run"
    /\ panicked = FALSE
    /\ cfg = PlainConfig(c, fs)
    /\ depsExchanges = GetEnabledExchanges(PlainConfig(c, fs))
    /\ depsRepo = FALSE
    /\ order = NewStateOrder(c)
    /\ sink = <<WriteLive(Render(NewState(c), NewStateOrder(c),
                                 GetEnabledExchanges(PlainConfig(c, fs)),
                                 DeltaThreshold, RenderLive))>>
    /\ closerChain = <<>>
    /\ closeLog = <<>>
    /\ snap = NoSnapshot
    /\ call = NoCall
    /\ TradeInit

Init == InitState(Coins, Feeds, {})

MergedTick == \E t \in Ticks : HandleTick(t) /\ UNCHANGED <<step, feedVars>>

Next == MergedTick

Spec == Init /\ [][Next]_vars

\* the pipeline: feeds, fan-in and main loop running concurrently
SpecFeed == Init /\ [][NextFeed]_vars

\* one step of feed f's adapter or of its fan-in goroutine that can happen
\* while the context is not cancelled
LiveStep(f) ==
    \/ RunTop(f)
    \/ DialFail(f)
    \/ DialOk(f)
    \/ Subscribe(f)
    \/ SubscribeFail(f)
    \/ Sleep(f)
    \/ ReadLoopErr(f)
    \/ CloseConn(f)
    \/ ReadFrame(f)
    \/ ReadError(f)
    \/ ReaderSend(f)
    \/ FwdRecv(f)
    \/ FwdSend(f)

\* the pipeline for as long as the context is not cancelled
NextLive ==
    \/ \E f \in depsFeeds : LiveStep(f)
    \/ MainRecv

SpecLive == Init /\ [][NextLive]_vars

\* the pipeline with one adapter as the one enabled feed
InitOne == \E f \in AllFeeds : InitState(Coins, {f}, {})

SpecOne == InitOne /\ [][NextFeed]_vars

\* the pipeline of a deployment whose configured list names the instruments
\* (symbols.list = ["BTCUSDT"]), with the Binance and the Bybit adapter
\* enabled, for as long as the context is not cancelled
OutageFeeds == {BINANCE, BYBIT}

InitOutage == InitState(<<BTCUSDT>>, OutageFeeds, {})

SpecOutage == InitOutage /\ [][NextLive]_vars

\* The frames a socket can deliver to onMsg: items with and without padding,
\* with empty fields and with prices that do not parse, up to two a frame.
Pad(s) == <<" ">> \o s \o <<" ">>

WireItems(f) ==
    {Item(i, p) : i \in Instruments(f) \cup {Pad(BTCUSDT), <<>>, <<" ">>},
                  p \in {P100, PNA, <<>>, Pad(P106)}}

WireLists(f) ==
    {<<>>} \cup {<<a>> : a \in WireItems(f)}
           \cup {<<a, b>> : a \in WireItems(f), b \in WireItems(f)}

WireFrames(f) ==
    IF f = OKX THEN WireLists(f)
    ELSE IF f = BYBIT
    THEN {BybitFrame("object", <<a>>) : a \in WireItems(f)}
             \cup {BybitFrame("array", l) : l \in WireLists(f)}
             \cup {BybitFrame("junk", <<>>)}
    ELSE {<<a>> : a \in WireItems(f)}

\* reader goroutine: any frame arrives
ReadWire(f) == ReadFrameFrom(f, WireFrames(f))

\* onMsg applied to the frames of one connected feed
InitDecode == \E f \in AllFeeds : InitState(Coins, {f}, {f})

NextDecode == \E f \in depsFeeds : ReadWire(f)

SpecDecode == InitDecode /\ [][NextDecode]_vars

-----------------------------------------------------------------------------
(* The board's operations, called one at a time by a client *)

\* the ticks a client applies: the configured coin on two exchanges with
\* parseable and unparseable prices, a coin that is not configured, a tick with
\* an empty price field, and a tick whose fields are padded and in lower case
StateTicks ==
    {Tick(ex, BTC, px) : ex \in {BINANCE, OKX}, px \in TickPrices}
        \cup {Tick(BINANCE, ETH, P100), Tick(OKX, BTC, <<>>),
              Tick(Pad(<<"o", "k", "x">>), Pad(<<"b", "t", "c">>), Pad(P100))}

\* the record of a call of op, after the call that `call` records: of a board
\* operation its tick and returned bit, of a converter operation the
\* converter's suffix, the string passed and the string returned
Called(op, arg, ret, conv, str, res) ==
    [op |-> op, arg |-> arg, ret |-> ret, conv |-> conv, str |-> str, res |-> res,
     prevOp |-> call.op, prevArg |-> call.arg, prevRet |-> call.ret,
     prevStr |-> call.str]

\* a client calls State.Apply(t)
ApplyCall(t) ==
    \E r \in {Apply(syms, t)} :
        /\ syms' = r.st
        /\ call' = Called("Apply", t, r.changed, <<>>, <<>>, <<>>)
        /\ UNCHANGED <<tradeVars, lastBand, seenBand, last, sink, step, depsVars, closeVars, snap,
                       pipeVars>>

\* a client calls State.Snapshot() and keeps the map it returns
SnapshotCall ==
    /\ snap' = Snapshot(syms)
    /\ call' = Called("Snapshot", NoTick, FALSE, <<>>, <<>>, <<>>)
    /\ UNCHANGED <<tradeVars, boardVars, sink, step, depsVars, closeVars, pipeVars>>

NextState ==
    \/ \E t \in StateTicks : ApplyCall(t)
    \/ SnapshotCall

SpecState == Init /\ [][NextState]_vars

-----------------------------------------------------------------------------
(* The symbol converter, called by a client *)

\* the strings of at most n characters over the alphabet A
RECURSIVE Strings(_, _)
Strings(A, n) ==
    IF n = 0 THEN {<<>>}
    ELSE Strings(A, n - 1) \cup {Append(s, a) : s \in Strings(A, n - 1), a \in A}

\* the longest head of a coin token, before a quote or a part of one
MaxHead == 2

\* the coin tokens a caller passes: padded or not, a short head in either
\* case, then nothing, the quote asset, a part of it or an instrument tail,
\* then nothing or one more letter
ConvertTokens ==
    {p \o h \o q \o t \o p :
        p \in {<<>>, <<" ">>},
        h \in Strings({"b", "U", "S"}, MaxHead),
        q \in {<<>>, Quote, <<"U", "S", "D">>, <<"-">> \o Quote \o <<"-", "S", "W", "A", "P">>},
        t \in {<<>>, <<"X">>}}

\* a client's first call: Coin2Symbol(c) on the converter of feed f
Coin2SymbolCall(f, c) ==
    /\ call.op = ""
    /\ call' = Called("Coin2Symbol", NoTick, FALSE, FeedSuffix(f), c,
                      Coin2Symbol(FeedSuffix(f), c))
    /\ UNCHANGED <<tradeVars, boardVars, sink, step, depsVars, closeVars, snap, pipeVars>>

\* the client calls Symbol2Coin of the same converter on the instrument that
\* Coin2Symbol returned
Symbol2CoinCall ==
    /\ call.op = "Coin2Symbol"
    /\ call' = Called("Symbol2Coin", NoTick, FALSE, call.conv, call.res,
                      Symbol2Coin(call.conv, call.res))
    /\ UNCHANGED <<tradeVars, boardVars, sink, step, depsVars, closeVars, snap, pipeVars>>

NextConvert ==
    \/ \E f \in AllFeeds : \E c \in ConvertTokens : Coin2SymbolCall(f, c)
    \/ Symbol2CoinCall

SpecConvert == Init /\ [][NextConvert]_vars

-----------------------------------------------------------------------------
(* The process: main, svc.New, Service.Run and ServiceContext.Close *)

\* symbols.list as a configuration file can have it: padded, in mixed case,
\* with a blank entry and with repeated coins
RawList == <<<<" ", "e", "t", "h", " ">>, <<"b", "t", "c">>, ETH, <<>>, <<"B", "t", "c">>>>

\* The configuration files: the list in normal form or raw; no exchange
\* enabled, one enabled exchange that no adapter is registered for, or Binance
\* and Bybit enabled; SQLite enabled, Redis enabled or not.
Configs ==
    {[file |-> l, list |-> l, enabled |-> en, spot |-> {}, monitor |-> <<>>,
      redis |-> r, sqlite |-> TRUE] :
         l \in {Coins, RawList}, en \in {{}, {EX1}, {BINANCE, BYBIT}}, r \in BOOLEAN}

\* the ticks the merged channel delivers to the running process
AppTicks ==
    {Tick(ex, BTC, px) : ex \in {BINANCE, BYBIT}, px \in {P100, P106}}
        \cup {Tick(BINANCE, ETH, P100)}

\* what the feeds and the fan-in goroutines hold
feedLocals == <<backoff, fails, subFailed, conn, reader, lastFrame, pending, readLog,
                errCh, out, outClosed, fwd, fwdTick, merged, applied, panicked>>

\* the process at the start of main, with the configuration file cf on disk
Boot(cf) ==
    /\ syms = NewState(<<>>)
    /\ lastBand = <<>>
    /\ seenBand = <<>>
    /\ last = NoRun
    /\ step = 0
    /\ depsCoins = <<>>
    /\ depsFeeds = {}
    /\ depsExchanges = <<>>
    /\ depsRepo = FALSE
    /\ cfg = cf
    /\ order = <<>>
    /\ sink = <<>>
    /\ closerChain = <<>>
    /\ closeLog = <<>>
    /\ snap = NoSnapshot
    /\ call = NoCall
    /\ TradeInit
    /\ ctxDone = FALSE
    /\ runPc = [f \in AllFeeds |-> "off"]
    /\ backoff = [f \in AllFeeds |-> InitialBackoff]
    /\ fails = [f \in AllFeeds |-> 0]
    /\ subFailed = [f \in AllFeeds |-> FALSE]
    /\ conn = [f \in AllFeeds |-> "closed"]
    /\ reader = [f \in AllFeeds |-> "done"]
    /\ lastFrame = [f \in AllFeeds |-> <<>>]
    /\ pending = [f \in AllFeeds |-> <<>>]
    /\ readLog = [f \in AllFeeds |-> <<>>]
    /\ errCh = [f \in AllFeeds |-> FALSE]
    /\ out = [f \in AllFeeds |-> <<>>]
    /\ outClosed = [f \in AllFeeds |-> FALSE]
    /\ fwd = [f \in AllFeeds |-> "select"]
    /\ fwdTick = [f \in AllFeeds |-> NoTick]
    /\ merged = <<>>
    /\ applied = [f \in AllFeeds |-> <<>>]
    /\ mainPc = "load"
    /\ panicked = FALSE

InitApp == \E cf \in Configs : Boot(cf)

\* main: config.Load; validate stores the normalized list and rejects an
\* empty one, and main ends the process on an error
Load ==
    /\ mainPc = "load"
    /\ cfg' = [cfg EXCEPT !.list = normalizeSymbols(cfg.list)]
    /\ mainPc' = IF Len(normalizeSymbols(cfg.list)) = 0 THEN "fatal" ELSE "new"
    /\ sink' = <<>>
    /\ UNCHANGED <<tradeVars, boardVars, step, depsCoins, depsFeeds, depsExchanges, depsRepo, order,
                   closeVars, clientVars, ctxDone, runPc, feedLocals>>

\* ServiceContext.Close with no closeable feed: the functions of the chain
\* that run, in the order they run
Close_RegistrationOrder(chain) == chain

Close(chain) == [i \in 1..Len(chain) |-> chain[Len(chain) + 1 - i]]

\* initializeStorage, with redisOk and sqliteOk telling whether the Redis ping
\* and the opening of the SQLite file succeed: the error and the chain left
initializeStorage(cf, redisOk, sqliteOk) ==
    IF cf.redis /\ ~redisOk THEN [err |-> TRUE, chain |-> <<>>]
    ELSE LET c1 == IF cf.redis THEN <<"redis">> ELSE <<>>
         IN  IF cf.sqlite /\ ~sqliteOk THEN [err |-> TRUE, chain |-> c1]
             ELSE [err |-> FALSE,
                   chain |-> IF cf.sqlite THEN Append(c1, "sqlite") ELSE c1]

\* svc.New that starts the service whatever feeds there are
NewResult_NoFeedChecks(cf, redisOk, sqliteOk) ==
    LET s == initializeStorage(cf, redisOk, sqliteOk)
    IN  IF s.err THEN [err |-> "storage", chain |-> s.chain]
        ELSE [err |-> "", chain |-> s.chain]

\* svc.New: the error it ends with ("" for none) and the closer chain built
NewResult(cf, redisOk, sqliteOk) ==
    IF Initialize(cf) THEN [err |-> "websocket", chain |-> <<>>]
    ELSE LET s == initializeStorage(cf, redisOk, sqliteOk)
         IN  IF s.err THEN [err |-> "storage", chain |-> s.chain]
             ELSE IF extractPriceFeeds(GetEnabledExchanges(cf)) = {}
             THEN [err |-> "no feeds", chain |-> s.chain]
             ELSE [err |-> "", chain |-> s.chain]

\* main: svc.New(ctx, cfg).  An error of Initialize ends the process at once;
\* an error of initializeComponents runs Close and then ends the process.
New ==
    /\ mainPc = "new"
    /\ \E redisOk \in BOOLEAN, sqliteOk \in BOOLEAN :
           \E r \in {NewResult(cfg, redisOk, sqliteOk)} :
               /\ closerChain' = r.chain
               /\ closeLog' = IF r.err \in {"storage", "no feeds"}
                              THEN closeLog \o Close(r.chain)
                              ELSE closeLog
               /\ mainPc' = IF r.err = "" THEN "built" ELSE "fatal"
    /\ wsm' = InitializeManager(cfg)
    /\ sink' = <<>>
    /\ UNCHANGED <<notWsm, boardVars, step, depsVars, clientVars, ctxDone, runPc, feedLocals>>

\* main: NewService(BuildMonitorServiceDeps()) and Service.Run up to its loop:
\* without feeds Run returns an error; otherwise every feed is subscribed and
\* the initial live line is written
RunStart ==
    /\ mainPc = "built"
    /\ \E en \in {GetEnabledExchanges(cfg)} :
       \E fs \in {extractPriceFeeds(en)} :
           /\ depsExchanges' = en
           /\ depsFeeds' = fs
           /\ depsCoins' = cfg.list
           /\ depsRepo' = cfg.sqlite
           /\ syms' = NewState(cfg.list)
           /\ order' = NewStateOrder(cfg.list)
           /\ IF fs = {}
              THEN /\ mainPc' = "done"
                   /\ sink' = <<>>
                   /\ runPc' = runPc
              ELSE /\ mainPc' = "run"
                   /\ sink' = <<WriteLive(Render(NewState(cfg.list), NewStateOrder(cfg.list),
                                                 en, DeltaThreshold, RenderLive))>>
                   /\ runPc' = [f \in AllFeeds |-> IF f \in fs THEN "top" ELSE runPc[f]]
    /\ UNCHANGED <<tradeVars, lastBand, seenBand, last, step, cfg, closeVars, clientVars, ctxDone,
                   feedLocals>>

\* main loop: `case t := <-merged` on a tick the feeds delivered
LoopTick ==
    /\ mainPc = "run"
    /\ \E t \in AppTicks : HandleTick(t)
    /\ UNCHANGED <<step, feedVars>>

\* main loop: `case now := <-snapTicker.C`: the snapshot line to the sink and,
\* with a repository, to InsertSnapshot
SnapTick ==
    /\ mainPc = "run"
    /\ \E line \in {Render(syms, order, depsExchanges, DeltaThreshold, RenderSnapshot)} :
           /\ sink' = <<WriteSnapshot(line)>>
           /\ last' = [NoRun EXCEPT !.repo = IF depsRepo THEN <<InsertSnapshot(line)>>
                                             ELSE <<>>]
    /\ UNCHANGED <<syms, lastBand, seenBand, step, feedVars>>

\* main returns after Run returned: the deferred serviceCtx.Close() runs
CloseAll ==
    /\ mainPc = "done"
    /\ closeLog' = closeLog \o Close(closerChain)
    /\ mainPc' = "exit"
    /\ sink' = <<>>
    /\ UNCHANGED <<tradeVars, boardVars, step, depsVars, closerChain, clientVars, ctxDone, runPc,
                   feedLocals>>

NextApp ==
    \/ Load
    \/ New
    \/ RunStart
    \/ LoopTick
    \/ SnapTick
    \/ Cancel
    \/ MainCtx
    \/ CloseAll

SpecApp == InitApp /\ [][NextApp]_vars


\* ------------------------------------------------------------------
\* The clients of the ArbitrageRepo
\* ------------------------------------------------------------------

\* everything but the repository, the WebSocket manager, the order execution
\* and the syncer
appVars == <<boardVars, step, sink, depsVars, closeVars, clientVars, pipeVars>>

notRepo == <<appVars, wsm, mm, od, dog, now, om, thr, syncer>>

PositionIDs == {"pos_001", "pos_002"}

PositionStatuses == {"open", "closing", "closed"}

\* realized PnL of 0, of 10.0 (the repository's test) and of 12.5
PnLs == {0, Tenths(10, 0), Tenths(12, 5)}

\* the positions a caller passes: CloseTime and RealizedPnL are zero until the
\* position is closed
PositionArgs ==
    {ArbitragePosition(id, st, ot, ct, pnl) :
        id \in PositionIDs, st \in PositionStatuses, ot \in {1, 2}, ct \in {0, 3},
        pnl \in PnLs}

CreatePosition(pos) ==
    \E r \in {InsertPosition(positions, pos)} :
        /\ positions' = r.tbl
        /\ repoRet' = Returned("CreatePosition", pos.ID, r.err, NoPosition, <<>>)
        /\ UNCHANGED notRepo

UpdatePosition(pos) ==
    /\ positions' = UpdateRow(positions, pos)
    /\ repoRet' = Returned("UpdatePosition", pos.ID, FALSE, NoPosition, <<>>)
    /\ UNCHANGED notRepo

GetPosition(id) ==
    \E r \in {SelectPosition(positions, id)} :
        /\ repoRet' = Returned("GetPosition", id, r.err, r.pos, <<>>)
        /\ UNCHANGED <<positions, notRepo>>

ListOpenPositions ==
    \E s \in SelectOpen(positions) :
        /\ repoRet' = Returned("ListOpenPositions", "", FALSE, NoPosition, s)
        /\ UNCHANGED <<positions, notRepo>>

NextRepo ==
    \/ \E pos \in {p \in PositionArgs : p.CloseTime = 0 /\ p.RealizedPnL = 0} :
          CreatePosition(pos)
    \/ \E pos \in PositionArgs : UpdatePosition(pos)
    \/ \E id \in PositionIDs : GetPosition(id)
    \/ ListOpenPositions

SpecRepo == Init /\ [][NextRepo]_vars


\* ------------------------------------------------------------------
\* The WebSocket manager alone: Initialize under the configurations
\* ------------------------------------------------------------------

WsExchanges == {BINANCE, BYBIT, OKX, EX1, EX2}

\* configurations by the exchanges enabled and those of them with a spot URL
WsConfigs ==
    {[file |-> Coins, list |-> Coins, enabled |-> en, spot |-> sp, monitor |-> <<>>,
      redis |-> FALSE, sqlite |-> FALSE] :
         en \in SUBSET WsExchanges, sp \in SUBSET WsExchanges}

InitWs == \E cf \in {c \in WsConfigs : c.spot \subseteq c.enabled} : Boot(cf)

\* a call of WebSocketManager.Initialize on a new manager
InitializeCall ==
    /\ ~wsm.done
    /\ wsm' = InitializeManager(cfg)
    /\ UNCHANGED <<appVars, notWsm>>

NextWs == InitializeCall

SpecWs == InitWs /\ [][NextWs]_vars

\* ------------------------------------------------------------------
\* The clients of the MarginManager
\* ------------------------------------------------------------------

notMargin == <<appVars, positions, repoRet, wsm, od, dog, now, om, thr, syncer>>

TradeSymbols == {BTCUSDT, ETH \o Quote}

\* the margin an order of the symbol takes
MarginOf(symbol) == IF symbol = BTCUSDT THEN 100 ELSE 200

\* the orders registered and the calls of MarkPositionClosed are bounded
MaxRegistered == 5

MaxCloses == 3

\* what the latest call was and what it returned
Answered(m, op, ret) == [m EXCEPT !.op = op, !.ret = ret]

CanExecuteOrderCall(symbol) ==
    /\ mm' = Answered(mm, "CanExecuteOrder", CanExecuteOrder(mm, symbol, MarginOf(symbol)))
    /\ UNCHANGED notMargin

\* the order ids are distinct, as the execution ids of ExecuteArbitrage are
RegisterOrderCall(symbol) ==
    /\ Cardinality(DOMAIN mm.ActiveOrders) < MaxRegistered
    /\ \E r \in {RegisterOrder(mm, Cardinality(DOMAIN mm.ActiveOrders) + 1, symbol,
                               MarginOf(symbol))} :
           mm' = Answered(r.mm, "RegisterOrder", r.err)
    /\ UNCHANGED notMargin

ExecuteOrderCall(orderID) ==
    /\ orderID \in DOMAIN mm.ActiveOrders
    /\ mm.ActiveOrders[orderID].Status = "PENDING"
    /\ \E r \in {ExecuteOrder(mm, orderID, mm.ActiveOrders[orderID].Symbol)} :
           mm' = Answered(r.mm, "ExecuteOrder", r.err)
    /\ UNCHANGED notMargin

MarkPositionClosedCall(symbol) ==
    /\ mm.closes < MaxCloses
    /\ \E r \in MarkPositionClosed(mm, symbol, 6) :
           mm' = Answered(r.mm, "MarkPositionClosed", r.err)
    /\ UNCHANGED notMargin

NextMargin ==
    \/ \E symbol \in TradeSymbols : CanExecuteOrderCall(symbol)
    \/ \E symbol \in TradeSymbols : RegisterOrderCall(symbol)
    \/ \E orderID \in 1..MaxRegistered : ExecuteOrderCall(orderID)
    \/ \E symbol \in TradeSymbols : MarkPositionClosedCall(symbol)

SpecMargin == Init /\ [][NextMargin]_vars

\* ------------------------------------------------------------------
\* OrderManager.ExecuteArbitrage (service/order_manager.go), by two callers
\* ------------------------------------------------------------------

\* the calls of ExecuteArbitrage and the clock are bounded
MaxCalls == 2

MaxNow == 10

\* (binancePrice, bybitPrice): Bybit dearer, Binance dearer, a spread below
\* the costs, and a price whose margin is above 5 % of the total margin
PricePairs == {<<100, 106>>, <<106, 100>>, <<1000, 1001>>, <<600, 640>>}

notTrade == <<appVars, positions, repoRet, wsm, thr, syncer>>

\* the caller's call returns ret
Returns(c, ret) == [om EXCEPT !.exec[c].pc = "done", !.exec[c].ret = ret]

\* ExecuteArbitrage from its entry to the release of om.mu (lines 152-213):
\* the duplicate check, the analysis, the margin check and the registrations
ExecuteArbitrage(c, symbol, binancePrice, bybitPrice) ==
    /\ om.exec[c].pc \in {"idle", "done"}
    /\ om.calls < MaxCalls
    /\ \E g \in {GuardCanPlaceOrder(dog, od, symbol, "ARBITRAGE", now)} :
       \E orderDetails \in {CalculateOrderDetails(binancePrice, bybitPrice)} :
       \E requiredMargin \in {CalculateRequiredMargin(binancePrice)} :
       \E executionID \in {om.calls + 1} :
       \E reg \in {RegisterOrder(mm, executionID, symbol, requiredMargin)} :
       \E e \in {[pc |-> "buy", call |-> executionID, symbol |-> symbol,
                  binancePrice |-> binancePrice, bybitPrice |-> bybitPrice,
                  id |-> executionID, margin |-> requiredMargin, ret |-> ""]} :
       \E ret \in {IF g.reason # "" THEN "duplicate order prevention"
                   ELSE IF orderDetails.err THEN "opportunity analysis failed"
                   ELSE IF CanExecuteOrder(mm, symbol, requiredMargin) # ""
                   THEN "margin check failed"
                   ELSE IF reg.err # "" THEN "failed to register order"
                   ELSE ""} :
           /\ dog' = g.dog
           /\ mm' = IF ret = "" THEN reg.mm ELSE mm
           /\ od' = IF ret = ""
                    THEN MapPut(od, symbol,
                                RecentOrder(executionID, symbol, orderDetails.Direction, now))
                    ELSE od
           /\ om' = [om EXCEPT !.calls = executionID,
                               !.exec[c] = IF ret = "" THEN e
                                           ELSE [e EXCEPT !.pc = "done", !.id = 0,
                                                          !.margin = 0, !.ret = ret]]
    /\ UNCHANGED <<now, notTrade>>

\* retryPlaceOrder of the buy order failed (lines 216-225): the order is
\* deleted from ActiveOrders and the symbol is blacklisted
BuyFailed(c) ==
    /\ om.exec[c].pc = "buy"
    /\ mm' = [mm EXCEPT !.ActiveOrders = MapDel(@, om.exec[c].id)]
    /\ od' = UpdateOrderStatus(od, om.exec[c].id, "FAILED", now)
    /\ dog' = MarkOrderFailure(dog, om.exec[c].symbol, now)
    /\ om' = Returns(c, "buy order failed")
    /\ UNCHANGED <<now, notTrade>>

\* retryPlaceOrder of the buy order returned an order id (line 216)
BuyPlaced(c) ==
    /\ om.exec[c].pc = "buy"
    /\ om' = [om EXCEPT !.exec[c].pc = "status"]
    /\ UNCHANGED <<mm, od, dog, now, notTrade>>

\* retryGetOrderStatus failed or reports no executed quantity (lines 228-233)
BuyNotExecuted(c) ==
    /\ om.exec[c].pc = "status"
    /\ od' = UpdateOrderStatus(od, om.exec[c].id, "FAILED", now)
    /\ dog' = MarkOrderFailure(dog, om.exec[c].symbol, now)
    /\ om' = Returns(c, "buy order not executed")
    /\ UNCHANGED <<mm, now, notTrade>>

\* the buy order is executed (line 228)
BuyExecuted(c) ==
    /\ om.exec[c].pc = "status"
    /\ om' = [om EXCEPT !.exec[c].pc = "sell"]
    /\ UNCHANGED <<mm, od, dog, now, notTrade>>

\* retryPlaceOrder of the sell order failed (lines 236-241)
SellFailed(c) ==
    /\ om.exec[c].pc = "sell"
    /\ od' = UpdateOrderStatus(od, om.exec[c].id, "FAILED", now)
    /\ dog' = MarkOrderFailure(dog, om.exec[c].symbol, now)
    /\ om' = Returns(c, "sell order failed")
    /\ UNCHANGED <<mm, now, notTrade>>

\* the sell order is placed (lines 236-269): ExecuteOrder, MarkOrderSuccess
SellPlaced(c) ==
    /\ om.exec[c].pc = "sell"
    /\ mm' = ExecuteOrder(mm, om.exec[c].id, om.exec[c].symbol).mm
    /\ od' = UpdateOrderStatus(od, om.exec[c].id, "EXECUTED", now)
    /\ om' = Returns(c, "ok")
    /\ UNCHANGED <<dog, now, notTrade>>

\* five seconds pass
Advance ==
    /\ now < MaxNow
    /\ now' = now + 5
    /\ UNCHANGED <<appVars, positions, repoRet, wsm, mm, od, dog, om, thr, syncer>>

NextTrade ==
    \/ \E c \in Callers, symbol \in TradeSymbols, p \in PricePairs :
          ExecuteArbitrage(c, symbol, p[1], p[2])
    \/ \E c \in Callers : BuyFailed(c)
    \/ \E c \in Callers : BuyPlaced(c)
    \/ \E c \in Callers : BuyNotExecuted(c)
    \/ \E c \in Callers : BuyExecuted(c)
    \/ \E c \in Callers : SellFailed(c)
    \/ \E c \in Callers : SellPlaced(c)
    \/ Advance

SpecTrade == Init /\ [][NextTrade]_vars


\* ------------------------------------------------------------------
\* The DuplicateOrderGuard under concurrent calls (part_025, 424-506): a
\* step per lock operation and per begin and end of an access to failedSymbols
\* ------------------------------------------------------------------

MaxGuardNow == 60

notGuard == <<appVars, positions, repoRet, wsm, mm, om, syncer>>

\* some goroutine writes failedSymbols while another reads or writes it
Racing == \E t \in dog.writing : (dog.reading \cup dog.writing) \ {t} # {}

\* goroutine t is at pc and the process runs
At(t, pc) == ~dog.fatal /\ thr[t].pc = pc

\* CanPlaceOrder is called (line 425)
CanPlaceOrderEnter(t, symbol) ==
    /\ At(t, "idle")
    /\ thr' = [thr EXCEPT ![t] = [pc |-> "rlock", op |-> "CanPlaceOrder",
                                  symbol |-> symbol, ret |-> ""]]
    /\ UNCHANGED <<dog, od, now, notGuard>>

\* dog.mu.RLock() (line 431) and the start of the map lookup (line 432)
RLock(t) ==
    /\ At(t, "rlock")
    /\ dog.wlock = ""
    /\ dog' = [dog EXCEPT !.rlock = @ \cup {t}, !.reading = @ \cup {t}]
    /\ thr' = [thr EXCEPT ![t].pc = "lookup"]
    /\ UNCHANGED <<od, now, notGuard>>

\* the lookup ends (lines 432-438): a fresh entry refuses the order after
\* RUnlock, an expired one starts delete(dog.failedSymbols, symbol) with the
\* read lock still held, no entry goes on to RUnlock
Lookup(t) ==
    /\ At(t, "lookup")
    /\ \E b \in {Blacklisted(dog.failedSymbols, thr[t].symbol, now)} :
         /\ dog' = [dog EXCEPT !.reading = @ \ {t},
                               !.rlock = IF b = "refuse" THEN @ \ {t} ELSE @,
                               !.writing = IF b = "delete" THEN @ \cup {t} ELSE @]
         /\ thr' = [thr EXCEPT ![t].pc = CASE b = "refuse" -> "done"
                                           [] b = "delete" -> "delete"
                                           [] OTHER -> "runlock",
                               ![t].ret = IF b = "refuse" THEN "symbol in blacklist"
                                          ELSE ""]
    /\ UNCHANGED <<od, now, notGuard>>

\* delete(dog.failedSymbols, symbol) ends (line 438)
Delete(t) ==
    /\ At(t, "delete")
    /\ dog' = [dog EXCEPT !.failedSymbols = MapDel(@, thr[t].symbol),
                          !.writing = @ \ {t}]
    /\ thr' = [thr EXCEPT ![t].pc = "runlock"]
    /\ UNCHANGED <<od, now, notGuard>>

\* dog.mu.RUnlock() and the deduplicator's check (lines 440-444)
RUnlock(t) ==
    /\ At(t, "runlock")
    /\ dog' = [dog EXCEPT !.rlock = @ \ {t}]
    /\ thr' = [thr EXCEPT ![t].pc = "done",
                          ![t].ret = CanPlaceOrder(od, thr[t].symbol, "ARBITRAGE", now)]
    /\ UNCHANGED <<od, now, notGuard>>

\* MarkOrderFailure is called: UpdateOrderStatus (lines 460-466)
MarkOrderFailureEnter(t, symbol) ==
    /\ At(t, "idle")
    /\ od' = UpdateOrderStatus(od, 0, "FAILED", now)
    /\ thr' = [thr EXCEPT ![t] = [pc |-> "lock", op |-> "MarkOrderFailure",
                                  symbol |-> symbol, ret |-> ""]]
    /\ UNCHANGED <<dog, now, notGuard>>

\* ValidateAndCleanup is called: CleanupExpiredOrders (lines 490-492)
ValidateAndCleanupEnter(t) ==
    /\ At(t, "idle")
    /\ od' = CleanupExpiredOrders(od, now)
    /\ thr' = [thr EXCEPT ![t] = [pc |-> "lock", op |-> "ValidateAndCleanup",
                                  symbol |-> <<>>, ret |-> ""]]
    /\ UNCHANGED <<dog, now, notGuard>>

\* dog.mu.Lock() (lines 469, 495) and the start of the write
Lock(t) ==
    /\ At(t, "lock")
    /\ dog.wlock = "" /\ dog.rlock = {}
    /\ dog' = [dog EXCEPT !.wlock = t, !.writing = @ \cup {t}]
    /\ thr' = [thr EXCEPT ![t].pc = "write"]
    /\ UNCHANGED <<od, now, notGuard>>

\* the write ends and dog.mu.Unlock() (lines 470-471, 496-505)
Unlock(t) ==
    /\ At(t, "write")
    /\ dog' = [dog EXCEPT !.failedSymbols =
                              IF thr[t].op = "MarkOrderFailure"
                              THEN MarkOrderFailure(dog, thr[t].symbol, now).failedSymbols
                              ELSE CleanupBlacklist(@, now),
                          !.writing = @ \ {t},
                          !.wlock = ""]
    /\ thr' = [thr EXCEPT ![t].pc = "done"]
    /\ UNCHANGED <<od, now, notGuard>>

\* the call returns
Return(t) ==
    /\ At(t, "done")
    /\ thr' = [thr EXCEPT ![t] = IdleThread]
    /\ UNCHANGED <<dog, od, now, notGuard>>

\* the runtime detects the concurrent map access and ends the process
\* ("fatal error: concurrent map read and map write"); the detection is not
\* guaranteed, the accesses may also complete
RaceFatal ==
    /\ ~dog.fatal
    /\ Racing
    /\ dog' = [dog EXCEPT !.fatal = TRUE]
    /\ UNCHANGED <<thr, od, now, notGuard>>

\* blacklistTTL passes
Elapse ==
    /\ ~dog.fatal
    /\ now < MaxGuardNow
    /\ now' = now + blacklistTTL
    /\ UNCHANGED <<thr, dog, od, notGuard>>

NextGuard ==
    \/ \E t \in Threads, symbol \in TradeSymbols : CanPlaceOrderEnter(t, symbol)
    \/ \E t \in Threads : RLock(t)
    \/ \E t \in Threads : Lookup(t)
    \/ \E t \in Threads : Delete(t)
    \/ \E t \in Threads : RUnlock(t)
    \/ \E t \in Threads, symbol \in TradeSymbols : MarkOrderFailureEnter(t, symbol)
    \/ \E t \in Threads : ValidateAndCleanupEnter(t)
    \/ \E t \in Threads : Lock(t)
    \/ \E t \in Threads : Unlock(t)
    \/ \E t \in Threads : Return(t)
    \/ RaceFatal
    \/ Elapse

SpecGuard == Init /\ [][NextGuard]_vars

\* ------------------------------------------------------------------
\* FundingRateSyncer.Start and its goroutine (part_023, 43-62)
\* ------------------------------------------------------------------

MaxSyncs == 3

Intervals == {0, 60, 3600}

SymbolLists == {<<BTCUSDT>>, <<BTCUSDT, BTC>>, <<BTC>>}

notSync == <<appVars, positions, repoRet, wsm, mm, od, dog, now, om, thr>>

\* one more, up to the cap
Counted(n) == IF n < MaxSyncs THEN n + 1 ELSE n

\* a call of NewFundingRateSyncer
NewFundingRateSyncerCall(interval) ==
    /\ syncer.pc = "none"
    /\ syncer' = NewFundingRateSyncer(interval)
    /\ UNCHANGED notSync

\* Start is called: time.NewTicker(s.interval) (line 44)
StartCall(symbols) ==
    /\ syncer.pc = "new"
    /\ syncer' = [syncer EXCEPT !.pc = "sync", !.symbols = symbols, !.ticker = "running"]
    /\ UNCHANGED notSync

\* the first sync, at once (line 48)
FirstSync ==
    /\ syncer.pc = "sync"
    /\ syncer' = [syncer EXCEPT !.pc = "spawn", !.syncs = Counted(@),
                                !.asked = syncFundingRates(syncer.symbols)]
    /\ UNCHANGED notSync

\* the go statement (line 50): the goroutine waits in its select
Spawn ==
    /\ syncer.pc = "spawn"
    /\ syncer' = [syncer EXCEPT !.pc = "return", !.go = "select"]
    /\ UNCHANGED notSync

\* return nil (line 61) runs the deferred ticker.Stop() (line 45): no tick is
\* sent from now on; a tick already in the channel stays or is discarded,
\* by the version of the runtime
StartReturn ==
    /\ syncer.pc = "return"
    /\ \E tick \in {0, syncer.tick} :
          syncer' = [syncer EXCEPT !.pc = "returned", !.ticker = "stopped", !.tick = tick]
    /\ UNCHANGED notSync

\* an interval has passed: the running ticker sends into its channel, which
\* holds one tick
TickerFires ==
    /\ syncer.ticker = "running"
    /\ syncer.tick = 0
    /\ syncer' = [syncer EXCEPT !.tick = 1]
    /\ UNCHANGED notSync

\* case <-ticker.C (line 55)
Receive ==
    /\ syncer.go = "select"
    /\ syncer.tick = 1
    /\ syncer' = [syncer EXCEPT !.go = "syncing", !.tick = 0]
    /\ UNCHANGED notSync

\* s.syncFundingRates in the goroutine (line 56)
GoSync ==
    /\ syncer.go = "syncing"
    /\ syncer' = [syncer EXCEPT !.go = "select", !.syncs = Counted(@),
                                !.after = IF syncer.pc = "returned" THEN Counted(@) ELSE @,
                                !.asked = syncFundingRates(syncer.symbols)]
    /\ UNCHANGED notSync

\* case <-ctx.Done() (lines 53-54)
GoDone ==
    /\ syncer.go = "select"
    /\ syncer.cancelled
    /\ syncer' = [syncer EXCEPT !.go = "exit"]
    /\ UNCHANGED notSync

\* the caller cancels the context
CancelCtx ==
    /\ syncer.pc # "none"
    /\ ~syncer.cancelled
    /\ syncer' = [syncer EXCEPT !.cancelled = TRUE]
    /\ UNCHANGED notSync

NextSync ==
    \/ \E interval \in Intervals : NewFundingRateSyncerCall(interval)
    \/ \E symbols \in SymbolLists : StartCall(symbols)
    \/ FirstSync
    \/ Spawn
    \/ StartReturn
    \/ TickerFires
    \/ Receive
    \/ GoSync
    \/ GoDone
    \/ CancelCtx

SpecSync == Init /\ [][NextSync]_vars

\* the goroutines are scheduled and the running ticker keeps time; nothing
\* obliges the caller to construct, start or cancel
SpecSyncLive ==
    /\ SpecSync
    /\ WF_vars(FirstSync) /\ WF_vars(Spawn) /\ WF_vars(StartReturn)
    /\ WF_vars(TickerFires) /\ WF_vars(Receive) /\ WF_vars(GoSync) /\ WF_vars(GoDone)

-----------------------------------------------------------------------------
(* The end-to-end scenario S1-S3: threshold 5.0, exchanges EX1 and EX2, coin BTC *)

P103 == <<"1","0","3">>
P107 == <<"1","0","7">>
P95  == <<"9","5">>
P96  == <<"9","6">>
P89  == <<"8","9">>

Scenario ==
    <<Tick(EX1, BTC, P100), Tick(EX2, BTC, P106), Tick(EX2, BTC, P107),
      Tick(EX1, BTC, P103), Tick(EX1, BTC, P95), Tick(EX2, BTC, P96),
      Tick(EX2, BTC, P89)>>

\* The merged channel delivers the scenario's ticks, in any order and any
\* number of times; step counts how far the run has followed the scenario's
\* own order from the start, and is -1 once it has left it.
ScenarioTick ==
    \E i \in 1..Len(Scenario) :
        /\ HandleTick(Scenario[i])
        /\ step' = IF step >= 0 /\ i = step + 1 THEN step + 1 ELSE -1
        /\ UNCHANGED feedVars

NextScenario == ScenarioTick

SpecScenario == Init /\ [][NextScenario]_vars

-----------------------------------------------------------------------------
(* Properties of the detector *)

Abs(x) == IF x < 0 THEN 0 - x ELSE x

\* the exchanges of a row whose cell holds a numeric, parsed price
Numeric(row) == {ex \in DOMAIN row : row[ex].parse /\ row[ex].has}

\* the largest absolute delta over all pairs of numeric cells of a row
MaxAbsDelta(row) ==
    LET ds == {Abs(row[b].num - row[a].num) : a \in Numeric(row), b \in Numeric(row)}
    IN  CHOOSE d \in ds : \A x \in ds : x <= d

\* the exchanges of a row whose stored price string does not parse
Unparseable(row) == {ex \in DOMAIN row : ~ParseFloat(row[ex].str).ok}

\* C4: band evaluation is a function of the board state alone: on every
\* reachable board, all evaluations of a coin return the same (delta, band, ok).
C4_EvaluationIsFunctionOfBoard ==
    \A c \in DOMAIN syms :
        \A e1, e2 \in DeltaBand(syms, c, DeltaThreshold) : e1.res = e2.res

\* C5: along the scenario S1-S3 the handler emits no signal at ticks 1-4 and
\* 6, the signal (delta=+12, band=+1) at tick 5 and (delta=-6, band=-1) at tick 7.
C5_ScenarioSignals ==
    /\ step \in {1, 2, 3, 4, 6} => ~last.signal.emitted
    /\ step = 5 => last.signal = [emitted |-> TRUE, symbol |-> BTC, delta |-> 12,
                                  band |-> 1, threshold |-> DeltaThreshold]
    /\ step = 7 => last.signal = [emitted |-> TRUE, symbol |-> BTC, delta |-> -6,
                                  band |-> -1, threshold |-> DeltaThreshold]

\* C6: with the baseline established, an ok evaluation with band b emits one
\* signal {coin, delta, band, threshold} exactly when b differs from last_band
\* and b is non-zero, and in every case leaves last_band equal to b.
C6_EdgeTriggered ==
    (last.res.ok /\ last.seenBefore) =>
        /\ last.signal.emitted <=>
               (last.res.band # last.prevBand /\ last.res.band # 0)
        /\ last.signal.emitted =>
               last.signal = [emitted |-> TRUE, symbol |-> last.symbol,
                              delta |-> last.res.delta, band |-> last.res.band,
                              threshold |-> DeltaThreshold]
        /\ last.symbol \in DOMAIN lastBand
        /\ lastBand[last.symbol] = last.res.band

\* C6 witness: a signal on a direct jump from band +1 to band -1
C6_Witness ==
    /\ last.res.ok /\ last.seenBefore
    /\ last.prevBand = 1 /\ last.res.band = -1
    /\ last.signal.emitted

\* C7: no signal before the baseline: the first ok evaluation of a coin only
\* records last_band and sets established, even when its band is non-zero.
C7_BaselineSuppressed ==
    ~last.seenBefore =>
        /\ ~last.signal.emitted
        /\ last.res.ok =>
              /\ MapGet(seenBand, last.symbol, FALSE)
              /\ MapGet(lastBand, last.symbol, 0) = last.res.band

\* C7 witness: the first ok evaluation has a non-zero band
C7_Witness ==
    ~last.seenBefore /\ last.res.ok /\ last.res.band # 0

\* C8: with three or more numeric, parsed cells, the evaluation used for the
\* signal decision is ok and its delta has the maximum absolute value over all pairs.
C8_MaxAbsPairDecides ==
    \A c \in DOMAIN syms :
        (last.symbol = c /\ Cardinality(Numeric(syms[c])) >= 3) =>
            /\ last.res.ok
            /\ Abs(last.res.delta) = MaxAbsDelta(syms[c])

\* C9: a tick whose apply returned false establishes no baseline, leaves
\* last_band as it was and emits no signal.
C9_NoEffectWithoutChange ==
    ~last.changed =>
        /\ ~last.signal.emitted
        /\ MapGet(seenBand, last.symbol, FALSE) = last.seenBefore
        /\ MapGet(lastBand, last.symbol, 0) = last.prevBand

\* C10: while the cell (coin, X) holds an unparseable price string, every
\* evaluation of a pair that includes X is not-ok, and the handler that made
\* such an evaluation emitted no signal and left the coin's BandState alone.
C10_UnparsedCellSuppresses ==
    \A c \in DOMAIN syms :
        /\ \A e \in DeltaBand(syms, c, DeltaThreshold) :
              (\E i \in 1..Len(e.pair) : e.pair[i] \in Unparseable(syms[c]))
                  => ~e.res.ok
        /\ (last.symbol = c /\
               \E i \in 1..Len(last.pair) : last.pair[i] \in Unparseable(syms[c])) =>
              /\ ~last.res.ok
              /\ ~last.signal.emitted
              /\ MapGet(seenBand, c, FALSE) = last.seenBefore
              /\ MapGet(lastBand, c, 0) = last.prevBand

\* C10 witness: the evaluated pair includes a cell that held a number before
\* the unparseable string was applied, and the other cell is numeric
C10_Witness ==
    /\ last.symbol = BTC
    /\ Len(last.pair) = 2
    /\ \E i, j \in 1..2 :
          /\ i # j
          /\ last.pair[i] \in Unparseable(syms[BTC])
          /\ syms[BTC][last.pair[i]].has
          /\ last.pair[j] \in Numeric(syms[BTC])

-----------------------------------------------------------------------------
(* Properties of the feed adapters and the fan-in *)

\* the configured coin tokens, normalized
CoinTokens == {ToUpper(TrimSpace(Coins[i])) : i \in 1..Len(Coins)}

\* the ticks feed f has emitted that are still on their way to the main loop
Emitted(f) ==
    {out[f][i] : i \in 1..Len(out[f])}
        \cup (IF fwd[f] = "send" THEN {fwdTick[f]} ELSE {})
        \cup {merged[i] : i \in {j \in 1..Len(merged) : merged[j].Exchange = Name(f)}}

\* C1: whenever the context is cancelled, the outbound channel is closed by
\* run's return only, and no goroutine sends on it after the close.
C1_NoSendAfterClose ==
    /\ \A f \in Feeds : outClosed[f] => runPc[f] = "done"
    /\ ~panicked

\* C2: after the context is cancelled every fan-in forwarder exits: when
\* nothing can run any more, no forwarder is left blocked.
C2_ForwardersExitAfterCancel ==
    (ctxDone /\ ~panicked /\ ~ENABLED NextFeed) =>
        \A f \in Feeds : fwd[f] = "done"

\* C3: every emitted tick carries the feed's exchange tag and, as symbol, the
\* configured coin token obtained by converting the instrument identifier
\* back; the instrument identifier itself is never the symbol.
C3_TickSymbolIsCoin ==
    \A f \in Feeds : \A t \in Emitted(f) :
        /\ t.Exchange = Name(f)
        /\ t.Symbol \in CoinTokens
        /\ t.Symbol \notin Instruments(f) \ CoinTokens

-----------------------------------------------------------------------------
(* Properties of the pipeline while the context is not cancelled *)

\* the elements of a sequence
Range(s) == {s[i] : i \in 1..Len(s)}

\* the ticks of sequence s that carry feed f's exchange tag, in order
RECURSIVE OfFeed(_, _)
OfFeed(s, f) ==
    IF s = <<>> THEN <<>>
    ELSE IF s[1].Exchange = Name(f) THEN <<s[1]>> \o OfFeed(Tail(s), f)
    ELSE OfFeed(Tail(s), f)

\* the ticks feed f has sent on its outbound channel, in order
Sent(f) == SubSeq(readLog[f], 1, Len(readLog[f]) - Len(pending[f]))

\* the ticks of feed f between its outbound channel and the main loop, the
\* oldest first
InFlight(f) ==
    OfFeed(merged, f)
        \o (IF fwd[f] = "send" THEN <<fwdTick[f]>> ELSE <<>>)
        \o out[f]

IsPrefix(s, t) == Len(s) <= Len(t) /\ s = SubSeq(t, 1, Len(s))

\* C11: while a feed has no connection, no evaluation of the main loop that
\* returns ok (and so no baseline, band change or signal) is computed on a
\* pair that includes that feed's cell.
C11_DisconnectedFeedSuppressed ==
    [][(applied' # applied /\ last'.res.ok) =>
           \A f \in depsFeeds :
               conn[f] = "closed" => Name(f) \notin Range(last'.pair)]_vars

\* C12: while the context is not cancelled, the ticks a feed has sent on its
\* outbound channel are exactly the ticks the main loop has received from it
\* followed by those still in the channels: none is lost, none is duplicated.
C12_NoTickLost ==
    ~ctxDone => \A f \in depsFeeds : Sent(f) = applied[f] \o InFlight(f)

\* a stalled main loop: the merged channel is full, a forwarder is blocked
\* on it and the outbound channel behind that forwarder is full as well
C12_Witness ==
    /\ ~ctxDone
    /\ Len(merged) = MergedCap
    /\ \E f \in depsFeeds : fwd[f] = "send" /\ Len(out[f]) = OutCap

-----------------------------------------------------------------------------
(* Properties of the connect loop *)

\* C14: a feed's outbound channel is closed, and its connect loop ended, only
\* once the context is cancelled: no failure of a dial, of the subscribe
\* write, of a read or of a decode closes the channel or ends the loop.
C14_ClosedOnlyAfterCancel ==
    \A f \in depsFeeds : (outClosed[f] \/ runPc[f] = "done") => ctxDone

\* a feed that failed twice in a row, or that met a frame it cannot decode,
\* is still running with its channel open
C14_Witness ==
    /\ ~ctxDone
    /\ \E f \in depsFeeds :
          /\ ~outClosed[f]
          /\ runPc[f] = "sleep"
          /\ fails[f] >= 2
          /\ subFailed[f]
          /\ lastFrame[f] = <<BybitFrame("junk", <<>>)>>

\* C15: once the context is cancelled, a connect loop starts no dial and no
\* backoff sleep.
C15_NoDialNoSleepAfterCancel ==
    [][\A f \in depsFeeds :
           (ctxDone /\ runPc'[f] # runPc[f]) => runPc'[f] \notin {"dial", "sleep"}]_vars

RECURSIVE Pow2(_)
Pow2(n) == IF n = 0 THEN 1 ELSE 2 * Pow2(n - 1)

\* min(500 ms x 2^(k-1), 10 s)
DelayAfter(k) ==
    IF InitialBackoff * Pow2(k - 1) < MaxBackoff THEN InitialBackoff * Pow2(k - 1)
    ELSE MaxBackoff

C17_SubscribeFailureReconnects ==
    \A f \in depsFeeds :
        subFailed[f] => conn[f] = "closed" /\ runPc[f] \notin {"readLoop", "closing"}

-----------------------------------------------------------------------------
(* Properties of the onMsg callbacks *)

\* the ticks the Bybit adapter sends for n frames that each carry one of the
\* items as a single object
RECURSIVE ObjectFrameTicks(_, _)
ObjectFrameTicks(f, items) ==
    IF items = <<>> THEN <<>>
    ELSE DecodeBybit(f, BybitFrame("object", <<items[1]>>))
             \o ObjectFrameTicks(f, Tail(items))

\* C18: a Bybit frame whose data field is an array of n items produces the
\* ticks, in array order, of n frames carrying the items one by one.
C18_BybitArrayAsObjects ==
    (lastFrame[BYBIT] # <<>> /\ lastFrame[BYBIT][1].kind = "array") =>
        pending[BYBIT] = ObjectFrameTicks(BYBIT, lastFrame[BYBIT][1].items)

\* the ticker items of a frame of feed f
ItemsOf(f, fr) == IF f = BYBIT THEN fr.items ELSE fr

\* an item whose instrument identifier and price string are both non-empty
NonBlank(it) == TrimSpace(it.inst) # <<>> /\ TrimSpace(it.px) # <<>>

\* C19: a frame whose items all have a non-empty instrument identifier and a
\* non-empty price string yields one tick per item, in order, with the
\* trimmed wire string as price_str, whether or not the string parses (the
\* array form of a Bybit frame is the matter of C18).
C19_EveryPricedItemEmitted ==
    \A f \in depsFeeds :
        (/\ lastFrame[f] # <<>>
         /\ ~(f = BYBIT /\ lastFrame[f][1].kind = "array")
         /\ \A i \in 1..Len(ItemsOf(f, lastFrame[f][1])) :
                NonBlank(ItemsOf(f, lastFrame[f][1])[i]))
        => /\ Len(pending[f]) = Len(ItemsOf(f, lastFrame[f][1]))
           /\ \A i \in 1..Len(pending[f]) :
                  pending[f][i].PriceStr = TrimSpace(ItemsOf(f, lastFrame[f][1])[i].px)

-----------------------------------------------------------------------------
(* Properties of State.Apply *)

\* C20: the rows of the board are the configured coins throughout, and a tick
\* whose coin is not configured leaves the board as it is and returns false.
C20_UnknownCoinDropped ==
    /\ [](DOMAIN syms = CoinTokens)
    /\ [][ToUpper(TrimSpace(last'.symbol)) \notin CoinTokens =>
              (syms' = syms /\ ~last'.changed)]_vars

\* the handler has run on a tick of a coin that is not configured
C20_Witness ==
    /\ last.symbol = ETH
    /\ ~last.changed
    /\ ETH \notin DOMAIN syms

-----------------------------------------------------------------------------
(* Properties of the board's cells *)

C22_TrueThenFalse ==
    (call.op = "Apply" /\ call.prevOp = "Apply" /\ call.prevArg = call.arg)
        => (call.prevRet /\ ~call.ret)

\* the first application of a tick changes the display: it is of a configured
\* coin, none of its fields is blank and its trimmed price is not the string
\* the cell holds on board st
Changes(st, t) ==
    LET ex    == ToUpper(TrimSpace(t.Exchange))
        coin  == ToUpper(TrimSpace(t.Symbol))
        price == TrimSpace(t.PriceStr)
    IN  /\ coin # <<>> /\ price # <<>> /\ ex # <<>>
        /\ coin \in DOMAIN st
        /\ (ex \in DOMAIN st[coin] => st[coin][ex].str # price)

\* C22, amended: of two successive applications of the same tick the second
\* returns false, and the first returns true exactly when the tick is of a
\* configured coin, has no blank field and carries a price string other than
\* the one its cell holds.
C22_SecondApplyFalse ==
    /\ []((call.op = "Apply" /\ call.prevOp = "Apply" /\ call.prevArg = call.arg)
              => ~call.ret)
    /\ [][call'.op = "Apply" => (call'.ret <=> Changes(syms, call'.arg))]_vars

\* a tick with an unparseable price was applied twice in succession: the
\* first application returned true and the second false
C22_Witness ==
    /\ call.op = "Apply"
    /\ call.prevOp = "Apply"
    /\ call.prevArg = call.arg
    /\ call.arg.PriceStr = PNA
    /\ call.prevRet
    /\ ~call.ret

-----------------------------------------------------------------------------
(* Properties of State.Snapshot *)

\* C24: once a caller holds a snapshot, no application of a tick inserts into
\* a cell map that the snapshot's rows refer to.
C24_SnapshotIndependent ==
    [][(snap # NoSnapshot /\ call'.op = "Apply") =>
           \A k \in DOMAIN snap :
               DOMAIN MapAt(syms', snap[k].exchanges) = DOMAIN MapAt(syms, snap[k].exchanges)]_vars

-----------------------------------------------------------------------------
(* Properties of startup, the main loop and shutdown *)

\* the coin token of entry i of the list raw
Token(raw, i) == ToUpper(TrimSpace(raw[i]))

\* the entries of raw that are the first of their coin: not blank, and no
\* earlier entry has the same token
Firsts(raw) ==
    {i \in 1..Len(raw) :
        Token(raw, i) # <<>> /\ \A j \in 1..(i - 1) : Token(raw, j) # Token(raw, i)}

\* coins is the list raw in its order, without blanks and without the later
\* entries of a coin
InFileOrder(coins, raw) ==
    /\ Len(coins) = Cardinality(Firsts(raw))
    /\ \A k \in 1..Len(coins) :
           \E i \in Firsts(raw) :
               /\ coins[k] = Token(raw, i)
               /\ Cardinality({j \in Firsts(raw) : j < i}) = k - 1

\* C23: once the service is constructed, Symbols() is the list of the
\* configuration file in file order with the case-insensitive duplicates
\* removed, and no step of the run changes it.
C23_CoinsInConfigOrder ==
    /\ [](mainPc \in {"run", "done", "exit"} => InFileOrder(Symbols(order), cfg.file))
    /\ [][mainPc = "run" => Symbols(order') = Symbols(order)]_vars

\* the service runs on a file whose list repeats a coin in another case, and
\* has handled a tick
C23_Witness ==
    /\ mainPc = "run"
    /\ cfg.file = RawList
    /\ Symbols(order) = <<ETH, BTC>>
    /\ last.symbol = BTC
    /\ last.changed

\* C25: with a repository, the handler run that emits a signal calls
\* InsertSignal once with the tick's symbol, the delta and the snapshot-mode
\* line of the board.
C25_SignalPersisted ==
    (depsRepo /\ last.signal.emitted) =>
        Cardinality({i \in DOMAIN last.repo :
                        last.repo[i] = InsertSignal(last.signal.symbol, last.signal.delta,
                                                    Render(syms, order, depsExchanges,
                                                           DeltaThreshold, RenderSnapshot))}) = 1

\* every function of chain is in log exactly once, and a function registered
\* later is in log earlier
RanInReverse(log, chain) ==
    /\ \A i \in 1..Len(chain) : Cardinality({k \in 1..Len(log) : log[k] = chain[i]}) = 1
    /\ Len(log) = Len(chain)
    /\ \A i \in 1..Len(chain) : \A j \in (i + 1)..Len(chain) :
           \A k \in 1..Len(log) : \A l \in 1..Len(log) :
               (log[k] = chain[i] /\ log[l] = chain[j]) => l < k

\* C26: the main loop leaves its loop only on the cancelled context, writing
\* one newline and leaving the board alone; after that no step applies a tick
\* or writes to the sink; no close function runs while main has not returned
\* from Run, and when the process has exited each registered close function
\* has run once, in the reverse of the registration order.
C26_CancelThenClose ==
    /\ [][(mainPc = "run" /\ mainPc' = "done") =>
              (ctxDone /\ sink' = <<NewLine>> /\ syms' = syms)]_vars
    /\ [][(mainPc \in {"done", "exit"}) =>
              (syms' = syms /\ sink' = <<>> /\ mainPc' # "run")]_vars
    /\ [](mainPc \in {"load", "new", "built", "run", "done"} => closeLog = <<>>)
    /\ [](mainPc = "exit" => RanInReverse(closeLog, closerChain))

\* the service ran with Redis and SQLite, handled a tick, was cancelled and
\* the process has exited with both close functions run, SQLite's first
C26_Witness ==
    /\ mainPc = "exit"
    /\ ctxDone
    /\ syms[BTC] # <<>>
    /\ closerChain = <<"redis", "sqlite">>
    /\ closeLog = <<"sqlite", "redis">>

\* C27: with a configuration that yields no feed, the process never gets
\* past svc.New, which ends it with an error: the service is never
\* constructed, no feed is subscribed and nothing is written to the sink.
C27_NoFeedsStartupFails ==
    (extractPriceFeeds(GetEnabledExchanges(cfg)) = {}) =>
        /\ mainPc \in {"load", "new", "fatal"}
        /\ sink = <<>>
        /\ \A f \in AllFeeds : runPc[f] = "off"

\* svc.New has ended the process on a configuration with no exchange enabled
C27_Witness ==
    /\ cfg.enabled = {}
    /\ cfg.list # <<>>
    /\ mainPc = "fatal"
    /\ sink = <<>>

-----------------------------------------------------------------------------
(* Properties of the symbol converter *)

\* the string sub occurs in s
Contains(s, sub) ==
    \E i \in 1..(Len(s) - Len(sub) + 1) : SubSeq(s, i, i + Len(sub) - 1) = sub

\* a coin token of the converter's quote: upper-cased and trimmed it does not
\* hold the converter's suffix, that is, it names a coin and not an instrument
BelongsToQuote(suffix, c) == ~Contains(ToUpper(TrimSpace(c)), suffix)

-----------------------------------------------------------------------------
(* Properties of the rendered line *)

\* the pairs of displayed exchanges, in display order, whose two cells are
\* numeric and parsed
NumericPairs(m, exchanges) ==
    {p \in (1..Len(exchanges)) \X (1..Len(exchanges)) :
        /\ p[1] < p[2]
        /\ exchanges[p[1]] \in DOMAIN m /\ exchanges[p[2]] \in DOMAIN m
        /\ m[exchanges[p[1]]].parse /\ m[exchanges[p[1]]].has
        /\ m[exchanges[p[2]]].parse /\ m[exchanges[p[2]]].has}

\* the delta of the pair p of displayed exchanges
PairDelta(m, exchanges, p) == m[exchanges[p[2]]].num - m[exchanges[p[1]]].num

\* the text that shows the delta of the pair p with its label
DeltaText(m, exchanges, p) ==
    LET d == PairDelta(m, exchanges, p)
    IN  <<"DELTA", "=">> \o SprintfDelta(d)
            \o <<"(", exchanges[p[1]][1], "-", exchanges[p[2]][1], ")">>

\* C29: a live line written for a board whose one coin has a displayed pair
\* with both cells numeric and parsed shows the delta and the label of a pair
\* whose absolute delta is the maximum over those pairs.
C29_MaxDeltaShown ==
    \A k \in 1..Len(sink) :
        LET m         == syms[BTC]
            exchanges == getExchangesToDisplay(depsExchanges, m)
            pairs     == NumericPairs(m, exchanges)
        IN  (sink[k].op = "WriteLive" /\ pairs # {}) =>
                \E p \in pairs :
                    /\ \A q \in pairs :
                           Abs(PairDelta(m, exchanges, q)) <= Abs(PairDelta(m, exchanges, p))
                    /\ Contains(sink[k].line, DeltaText(m, exchanges, p))

\* C30: every line written to the sink has, for each exchange of the display
\* list, the exchange's initial and a colon, and shows `--` as the price of an
\* exchange whose cell is missing or unseen.
C30_ListedExchangesShown ==
    \A k \in 1..Len(sink) :
        sink[k].op \in {"WriteLive", "WriteSnapshot"} =>
            \A i \in 1..Len(depsExchanges) :
                LET ex == depsExchanges[i]
                    m  == syms[BTC]
                IN  /\ Contains(sink[k].line, <<ex[1], ":">>)
                    /\ (ex \notin DOMAIN m \/ ~m[ex].seen) =>
                           Contains(sink[k].line, <<ex[1], ":", "-", "-">>)


\* ------------------------------------------------------------------
\* Properties of the repository, the WebSocket manager and the order execution
\* ------------------------------------------------------------------

\* the ids with stored status open
OpenIDs == {i \in DOMAIN positions : positions[i].status = "open"}

\* C31: ListOpenPositions returns exactly the positions whose stored status is
\* open, and GetPosition returns every stored position by its id, whatever its
\* status: a position created open and updated to closed is not listed and is
\* still returned by GetPosition.
C31_ListedWhileOpen ==
    /\ repoRet.op = "ListOpenPositions" =>
           /\ ~repoRet.err
           /\ Range(repoRet.list) = OpenIDs
    /\ (repoRet.op = "GetPosition" /\ repoRet.id \in DOMAIN positions) =>
           /\ ~repoRet.err
           /\ repoRet.pos.ID = repoRet.id
           /\ repoRet.pos.Status = positions[repoRet.id].status

\* C31, the listing alone: ListOpenPositions returns exactly the positions
\* whose stored status is open
C31_ListedExactlyOpen ==
    repoRet.op = "ListOpenPositions" => (~repoRet.err /\ Range(repoRet.list) = OpenIDs)

\* the exchange has a client in one of the manager's maps
Registered(exchangeName) == exchangeName \in wsm.spotClients \cup wsm.perpetualClients

\* C32: Initialize returns an error exactly when none of the enabled exchanges
\* was registered; with one enabled exchange registered it returns nil, however
\* many (exchange, market type) registrations failed.
C32_ErrorIffAllFailed ==
    wsm.done =>
        (wsm.err <=> \A ex \in Range(GetEnabledExchanges(cfg)) : ~Registered(ex))

\* C32, what the code does: the error is returned exactly when the count of
\* failed (exchange, market type) registrations equals the count of enabled
\* exchanges
C32_ErrorIffCountsEqual ==
    wsm.done =>
        (wsm.err <=> Len(wsm.failedExchanges) = Len(GetEnabledExchanges(cfg)))

\* the orders registered and not closed
OpenOrders == {o \in DOMAIN mm.ActiveOrders : mm.ActiveOrders[o].Status # "CLOSED"}

RECURSIVE SumMargin(_)
SumMargin(orders) ==
    IF orders = {} THEN 0
    ELSE LET o == CHOOSE x \in orders : TRUE
         IN  mm.ActiveOrders[o].MarginUsed + SumMargin(orders \ {o})

\* C36: MaxOrderCount bounds the orders that are open at the same time: when
\* fewer than MaxOrderCount registered orders are not closed, CanExecuteOrder
\* does not answer that the order count is reached.
C36_CountsOpenOrders ==
    (mm.op = "CanExecuteOrder" /\ Cardinality(OpenOrders) < MaxOrderCount) =>
        mm.ret # "max order count reached"

\* C36, what the code does: CanExecuteOrder answers that the order count is
\* reached exactly when MaxOrderCount orders were registered, closed or not
C36_CountsRegisteredOrders ==
    mm.op = "CanExecuteOrder" =>
        (mm.ret = "max order count reached"
            <=> Cardinality(DOMAIN mm.ActiveOrders) >= MaxOrderCount)

\* C37: the margin of a registered order is released at most once: UsedMargin
\* is never negative and is the sum of MarginUsed over the orders registered
\* and not closed, and AvailableMargin is TotalMargin less UsedMargin.
C37_MarginAccounting ==
    /\ mm.UsedMargin >= 0
    /\ mm.UsedMargin = SumMargin(OpenOrders)
    /\ mm.AvailableMargin = mm.TotalMargin - mm.UsedMargin

\* C37, the part that holds: AvailableMargin is TotalMargin less UsedMargin
C37_AvailablePlusUsed == mm.AvailableMargin = mm.TotalMargin - mm.UsedMargin

\* the step is the return of caller c's ExecuteArbitrage with an error after
\* its order was registered
FailsAfterRegistration(c) ==
    /\ om.exec[c].pc \in {"buy", "status", "sell"}
    /\ om'.exec[c].pc = "done"
    /\ om'.exec[c].ret # "ok"

\* C33: when ExecuteArbitrage fails after the order was registered (the buy
\* order fails, is not executed, or the sell order fails), the margin state is
\* rolled back: the order is no longer in ActiveOrders, and UsedMargin and
\* AvailableMargin are what they were before the order's registration.
C33_FailureRollsBack ==
    [][\A c \in Callers :
          FailsAfterRegistration(c) =>
              /\ om.exec[c].id \notin DOMAIN mm'.ActiveOrders
              /\ mm'.UsedMargin = mm.UsedMargin - om.exec[c].margin
              /\ mm'.AvailableMargin = mm.AvailableMargin + om.exec[c].margin]_vars

\* C33, what the code does: no failure after the registration gives the margin
\* back
C33_FailureKeepsMargin ==
    [][\A c \in Callers :
          FailsAfterRegistration(c) =>
              /\ mm'.UsedMargin = mm.UsedMargin
              /\ mm'.AvailableMargin = mm.AvailableMargin]_vars

\* the step is the entry of caller c into ExecuteArbitrage, up to its first
\* return or to the release of om.mu
Enters(c) == om'.calls = om.calls + 1 /\ om'.exec[c].call = om'.calls

\* the order that the deduplicator holds for the symbol of c's new call
Recent(c) == od[om'.exec[c].symbol]

\* C34: while an order of a symbol is pending, a second ExecuteArbitrage for
\* the same symbol and trade direction within the deduplication window is
\* rejected before any margin is reserved and any order is placed.
C34_PendingDuplicateRejected ==
    [][\A c \in Callers :
          (/\ Enters(c)
           /\ om'.exec[c].symbol \in DOMAIN od
           /\ Recent(c).Status = "PENDING"
           /\ now - Recent(c).PlacedAt < DeduplicationWindow
           /\ Recent(c).Direction =
                  CalculateOrderDetails(om'.exec[c].binancePrice,
                                        om'.exec[c].bybitPrice).Direction)
          => (om'.exec[c].pc = "done" /\ mm' = mm /\ od' = od)]_vars

\* C35: after the order of a symbol was marked EXECUTED, a new order for the
\* symbol is refused by CanPlaceOrder until the cooldown period has elapsed.
C35_CooldownAfterExecuted ==
    [][\A c \in Callers :
          (/\ Enters(c)
           /\ om'.exec[c].symbol \in DOMAIN od
           /\ Recent(c).Status = "EXECUTED"
           /\ now - Recent(c).ExecutedAt < CooldownPeriod)
          => om'.exec[c].ret = "duplicate order prevention"]_vars

\* C34 and C35, what the code does: ExecuteArbitrage is refused as a duplicate
\* only for a symbol that failed within the last blacklistTTL seconds
C34_RefusedOnlyWhenBlacklisted ==
    [][\A c \in Callers :
          (Enters(c) /\ om'.exec[c].ret = "duplicate order prevention")
          => Blacklisted(dog.failedSymbols, om'.exec[c].symbol, now) = "refuse"]_vars

\* C38: failedSymbols is modified only while the guard's write lock is held,
\* so that under concurrent CanPlaceOrder, MarkOrderFailure and
\* ValidateAndCleanup calls no goroutine writes the map while another reads or
\* writes it.
C38_NoConcurrentMapAccess == ~Racing

\* C38, the first half as a property of the steps: a step that changes
\* failedSymbols is taken by the holder of the write lock
C38_ModifiedUnderWriteLock ==
    [][dog'.failedSymbols # dog.failedSymbols => dog.wlock # ""]_vars

\* C38, what the code does: the calls that take the write lock are alone in
\* the map; every writer without it is a CanPlaceOrder deleting an expired
\* entry under the read lock
C38_RaceOnlyInCanPlaceOrder ==
    /\ \A t \in dog.writing :
          thr[t].op # "CanPlaceOrder" =>
              (dog.wlock = t /\ dog.reading \cup dog.writing = {t})
    /\ \A t \in dog.writing :
          thr[t].op = "CanPlaceOrder" => (t \in dog.rlock /\ dog.wlock = "")

\* C39: after Start has returned, the funding rates are synced again each
\* interval, again and again, until the context is cancelled.
C39_SyncsEachInterval ==
    []((syncer.pc = "returned" /\ ~syncer.cancelled)
          => <>(syncer.go = "syncing" \/ syncer.cancelled))

\* C39, what the code does: Start's return stops the ticker, and the goroutine
\* ends at most two syncs after it, the one it was in and the one of a tick
\* that was in the channel before
C39_TickerStoppedOnReturn ==
    /\ syncer.pc = "returned" => syncer.ticker = "stopped"
    /\ syncer.after <= 2

====
